---- MODULE Spec2Model ----
(***************************************************************************)
(* Subscription tracker bot (src/main.py): calendar recurrence, price and  *)
(* quick-add parsing, and the duplicate-subscription decision handlers.    *)
(*                                                                         *)
(* Text is modelled at character level: a string is a sequence of          *)
(* one-character strings, so that split / join / lower / float parsing /   *)
(* "%.2f" formatting are computed and not assumed.                         *)
(* Amounts (Python floats) are integers counted in thousandths.            *)
(***************************************************************************)
EXTENDS Integers, Sequences, FiniteSets, TLC

VARIABLES
    nfl_last,       \* next_from_last: argument last
    nfl_period,     \* next_from_last: argument period
    nfl_today,      \* next_from_last: argument today
    candidate,      \* next_from_last: local variable candidate
    nfl_pc,         \* next_from_last: "call" | "loop" | "done"
    fn_op,          \* text helpers: the function called
    fn_arg,         \* text helpers: its argument
    fn_res,         \* text helpers: its result
    fn_pc,          \* text helpers: "call" | "done"
    subscriptions,  \* table subscriptions: a set of rows
    next_sub_id,    \* AUTOINCREMENT of subscriptions
    payment_history,\* table payment_history: a set of rows
    next_pay_id,    \* AUTOINCREMENT of payment_history
    user_data,      \* context.user_data of every user
    conv,           \* state of the add conversation of every user
    reply           \* the last answer the bot gave

recurVars == <<nfl_last, nfl_period, nfl_today, candidate, nfl_pc>>

textVars == <<fn_op, fn_arg, fn_res, fn_pc>>

botVars == <<subscriptions, next_sub_id, payment_history, next_pay_id,
             user_data, conv, reply>>

vars == <<nfl_last, nfl_period, nfl_today, candidate, nfl_pc,
          fn_op, fn_arg, fn_res, fn_pc,
          subscriptions, next_sub_id, payment_history, next_pay_id,
          user_data, conv, reply>>

\* None, the empty text and the empty tuple
None == <<>>

-----------------------------------------------------------------------------
(* Bounds of the model                                                     *)

YearMin == 2023
YearMax == 2024
DaySamples == {1, 28, 29, 30, 31}
MaxTokens == 4          \* tokens in a quick-add line
MaxSmallAmount == 30    \* amounts 0.001 .. 0.030 are all drawn
MaxSubs == 2            \* rows of the table subscriptions

-----------------------------------------------------------------------------
(* DATE HELPERS                                                            *)

IsLeap(y) == (y % 4 = 0) /\ ((y % 100 # 0) \/ (y % 400 = 0))

days_in_month(y, m) ==
    IF m = 2 THEN (IF IsLeap(y) THEN 29 ELSE 28)
    ELSE IF m \in {4, 6, 9, 11} THEN 30 ELSE 31

Min(a, b) == IF a < b THEN a ELSE b
Max(a, b) == IF a > b THEN a ELSE b

clamp_day_no_upper(year, month, wanted_day) ==
    Max(1, wanted_day)

clamp_day(year, month, wanted_day) ==
    LET last_day == days_in_month(year, month)
    IN  Min(Max(1, wanted_day), last_day)

date(y, m, d) == [year |-> y, month |-> m, day |-> d]

DateLT(a, b) ==
    \/ a.year < b.year
    \/ a.year = b.year /\ a.month < b.month
    \/ a.year = b.year /\ a.month = b.month /\ a.day < b.day

DateLE(a, b) == DateLT(a, b) \/ a = b

add_months_nocarry(d, months) ==
    LET y == d.year
        m == ((d.month - 1 + months) % 12) + 1
        day == clamp_day(y, m, d.day)
    IN  date(y, m, day)

add_months(d, months) ==
    LET y == d.year + ((d.month - 1 + months) \div 12)
        m == ((d.month - 1 + months) % 12) + 1
        day == clamp_day(y, m, d.day)
    IN  date(y, m, day)

add_years_noclamp(d, years) ==
    date(d.year + years, d.month, d.day)

add_years(d, years) ==
    LET y == d.year + years
        day == clamp_day(y, d.month, d.day)
    IN  date(y, d.month, day)

\* body of the while loop of next_from_last
next_from_last_body(cand, period) ==
    IF period = "year" THEN add_years(cand, 1) ELSE add_months(cand, 1)

RECURSIVE next_from_last(_, _, _)
next_from_last(last, period, today) ==
    IF DateLT(last, today)
    THEN next_from_last(next_from_last_body(last, period), period, today)
    ELSE last

next_by_day_skip_today(day_of_month, today) ==
    LET d_this == clamp_day(today.year, today.month, day_of_month)
        candidate0 == date(today.year, today.month, d_this)
    IN  IF DateLE(candidate0, today)
        THEN LET y == IF today.month = 12 THEN today.year + 1 ELSE today.year
                 m == IF today.month = 12 THEN 1 ELSE today.month + 1
             IN  date(y, m, clamp_day(y, m, day_of_month))
        ELSE candidate0

next_by_day(day_of_month, today) ==
    LET d_this == clamp_day(today.year, today.month, day_of_month)
        candidate0 == date(today.year, today.month, d_this)
    IN  IF DateLT(candidate0, today)
        THEN LET y == IF today.month = 12 THEN today.year + 1 ELSE today.year
                 m == IF today.month = 12 THEN 1 ELSE today.month + 1
                 d_next == clamp_day(y, m, day_of_month)
             IN  date(y, m, d_next)
        ELSE candidate0

-----------------------------------------------------------------------------
(* TABLES                                                                  *)

\* str.lower / str.upper on the letters of the model alphabet; a character is a
\* one-character string, a non-ASCII character is named by its code point
LOWER_OF ==
    ("A" :> "a") @@ ("B" :> "b") @@ ("C" :> "c") @@ ("D" :> "d") @@ ("E" :> "e") @@ ("F" :> "f")
    @@ ("G" :> "g") @@ ("H" :> "h") @@ ("I" :> "i") @@ ("J" :> "j") @@ ("K" :> "k") @@ ("L" :> "l")
    @@ ("M" :> "m") @@ ("N" :> "n") @@ ("O" :> "o") @@ ("P" :> "p") @@ ("Q" :> "q") @@ ("R" :> "r")
    @@ ("S" :> "s") @@ ("T" :> "t") @@ ("U" :> "u") @@ ("V" :> "v") @@ ("W" :> "w") @@ ("X" :> "x")
    @@ ("Y" :> "y") @@ ("Z" :> "z") @@ ("u0410" :> "u0430") @@ ("u0411" :> "u0431") @@ ("u0412" :> "u0432") @@ ("u0413" :> "u0433")
    @@ ("u0414" :> "u0434") @@ ("u0415" :> "u0435") @@ ("u0416" :> "u0436") @@ ("u0417" :> "u0437") @@ ("u0418" :> "u0438") @@ ("u0419" :> "u0439")
    @@ ("u041a" :> "u043a") @@ ("u041b" :> "u043b") @@ ("u041c" :> "u043c") @@ ("u041d" :> "u043d") @@ ("u041e" :> "u043e") @@ ("u041f" :> "u043f")
    @@ ("u0420" :> "u0440") @@ ("u0421" :> "u0441") @@ ("u0422" :> "u0442") @@ ("u0423" :> "u0443") @@ ("u0424" :> "u0444") @@ ("u0425" :> "u0445")
    @@ ("u0426" :> "u0446") @@ ("u0427" :> "u0447") @@ ("u0428" :> "u0448") @@ ("u0429" :> "u0449") @@ ("u042a" :> "u044a") @@ ("u042b" :> "u044b")
    @@ ("u042c" :> "u044c") @@ ("u042d" :> "u044d") @@ ("u042e" :> "u044e") @@ ("u042f" :> "u044f") @@ ("u0401" :> "u0451")

UPPER_OF ==
    ("a" :> "A") @@ ("b" :> "B") @@ ("c" :> "C") @@ ("d" :> "D") @@ ("e" :> "E") @@ ("f" :> "F")
    @@ ("g" :> "G") @@ ("h" :> "H") @@ ("i" :> "I") @@ ("j" :> "J") @@ ("k" :> "K") @@ ("l" :> "L")
    @@ ("m" :> "M") @@ ("n" :> "N") @@ ("o" :> "O") @@ ("p" :> "P") @@ ("q" :> "Q") @@ ("r" :> "R")
    @@ ("s" :> "S") @@ ("t" :> "T") @@ ("u" :> "U") @@ ("v" :> "V") @@ ("w" :> "W") @@ ("x" :> "X")
    @@ ("y" :> "Y") @@ ("z" :> "Z") @@ ("u0430" :> "u0410") @@ ("u0431" :> "u0411") @@ ("u0432" :> "u0412") @@ ("u0433" :> "u0413")
    @@ ("u0434" :> "u0414") @@ ("u0435" :> "u0415") @@ ("u0436" :> "u0416") @@ ("u0437" :> "u0417") @@ ("u0438" :> "u0418") @@ ("u0439" :> "u0419")
    @@ ("u043a" :> "u041a") @@ ("u043b" :> "u041b") @@ ("u043c" :> "u041c") @@ ("u043d" :> "u041d") @@ ("u043e" :> "u041e") @@ ("u043f" :> "u041f")
    @@ ("u0440" :> "u0420") @@ ("u0441" :> "u0421") @@ ("u0442" :> "u0422") @@ ("u0443" :> "u0423") @@ ("u0444" :> "u0424") @@ ("u0445" :> "u0425")
    @@ ("u0446" :> "u0426") @@ ("u0447" :> "u0427") @@ ("u0448" :> "u0428") @@ ("u0449" :> "u0429") @@ ("u044a" :> "u042a") @@ ("u044b" :> "u042b")
    @@ ("u044c" :> "u042c") @@ ("u044d" :> "u042d") @@ ("u044e" :> "u042e") @@ ("u044f" :> "u042f") @@ ("u0451" :> "u0401")

\* sqlite LOWER() folds ASCII letters only
SQL_LOWER_OF ==
    ("A" :> "a") @@ ("B" :> "b") @@ ("C" :> "c") @@ ("D" :> "d") @@ ("E" :> "e") @@ ("F" :> "f")
    @@ ("G" :> "g") @@ ("H" :> "h") @@ ("I" :> "i") @@ ("J" :> "j") @@ ("K" :> "k") @@ ("L" :> "l")
    @@ ("M" :> "m") @@ ("N" :> "n") @@ ("O" :> "o") @@ ("P" :> "p") @@ ("Q" :> "q") @@ ("R" :> "r")
    @@ ("S" :> "s") @@ ("T" :> "t") @@ ("U" :> "u") @@ ("V" :> "v") @@ ("W" :> "w") @@ ("X" :> "x")
    @@ ("Y" :> "y") @@ ("Z" :> "z")

SUPPORTED_CURRENCIES ==
    {<<"N", "O", "K">>, <<"E", "U", "R">>, <<"U", "S", "D">>, <<"R", "U", "B">>, <<"S", "E", "K">>, <<"D", "K", "K">>, <<"G", "B", "P">>}


CURRENCY_ALIASES ==
    (<<"u0440", "u0443", "u0431">> :> <<"R", "U", "B">>) @@ (<<"u0440", "u0443", "u0431", ".">> :> <<"R", "U", "B">>)
    @@ (<<"u0440">> :> <<"R", "U", "B">>) @@ (<<"u0440", ".">> :> <<"R", "U", "B">>)
    @@ (<<"u0440", "u0443", "u0431", "u043b", "u0435", "u0439">> :> <<"R", "U", "B">>) @@ (<<"u20bd">> :> <<"R", "U", "B">>)
    @@ (<<"r", "u", "b">> :> <<"R", "U", "B">>) @@ (<<"u0435", "u0432", "u0440", "u043e">> :> <<"E", "U", "R">>)
    @@ (<<"u20ac">> :> <<"E", "U", "R">>) @@ (<<"e", "u", "r">> :> <<"E", "U", "R">>)
    @@ (<<"u043a", "u0440", "u043e", "u043d", "u0430">> :> <<"N", "O", "K">>) @@ (<<"u043a", "u0440", "u043e", "u043d", "u044b">> :> <<"N", "O", "K">>)
    @@ (<<"u043a", "u0440", "u043e", "u043d">> :> <<"N", "O", "K">>) @@ (<<"u043a", "u0440">> :> <<"N", "O", "K">>)
    @@ (<<"u043a", "u0440", ".">> :> <<"N", "O", "K">>) @@ (<<"n", "o", "k">> :> <<"N", "O", "K">>)
    @@ (<<"k", "r">> :> <<"N", "O", "K">>) @@ (<<"k", "r", ".">> :> <<"N", "O", "K">>)
    @@ (<<"k", "r", "o", "n", "e", "r">> :> <<"N", "O", "K">>) @@ (<<"u0434", "u043e", "u043b", "u043b", "u0430", "u0440">> :> <<"U", "S", "D">>)
    @@ (<<"u0434", "u043e", "u043b", "u043b", "u0430", "u0440", "u044b">> :> <<"U", "S", "D">>) @@ (<<"u0434", "u043e", "u043b">> :> <<"U", "S", "D">>)
    @@ (<<"u0434", "u043e", "u043b", ".">> :> <<"U", "S", "D">>) @@ (<<"$">> :> <<"U", "S", "D">>)
    @@ (<<"u", "s", "d">> :> <<"U", "S", "D">>) @@ (<<"u0444", "u0443", "u043d", "u0442">> :> <<"G", "B", "P">>)
    @@ (<<"u0444", "u0443", "u043d", "u0442", "u044b">> :> <<"G", "B", "P">>) @@ (<<"u00a3">> :> <<"G", "B", "P">>)
    @@ (<<"g", "b", "p">> :> <<"G", "B", "P">>) @@ (<<"s", "e", "k">> :> <<"S", "E", "K">>)
    @@ (<<"d", "k", "k">> :> <<"D", "K", "K">>)

KNOWN_SERVICES ==
    (<<"n", "e", "t", "f", "l", "i", "x">> :> [name |-> <<"N", "e", "t", "f", "l", "i", "x">>, category |-> <<"v", "i", "d", "e", "o">>, period |-> "month"])
    @@ (<<"s", "p", "o", "t", "i", "f", "y">> :> [name |-> <<"S", "p", "o", "t", "i", "f", "y">>, category |-> <<"m", "u", "s", "i", "c">>, period |-> "month"])
    @@ (<<"y", "o", "u", "t", "u", "b", "e">> :> [name |-> <<"Y", "o", "u", "T", "u", "b", "e", " ", "P", "r", "e", "m", "i", "u", "m">>, category |-> <<"v", "i", "d", "e", "o">>, period |-> "month"])
    @@ (<<"y", "o", "u", "t", "u", "b", "e", " ", "p", "r", "e", "m", "i", "u", "m">> :> [name |-> <<"Y", "o", "u", "T", "u", "b", "e", " ", "P", "r", "e", "m", "i", "u", "m">>, category |-> <<"v", "i", "d", "e", "o">>, period |-> "month"])
    @@ (<<"a", "p", "p", "l", "e", " ", "m", "u", "s", "i", "c">> :> [name |-> <<"A", "p", "p", "l", "e", " ", "M", "u", "s", "i", "c">>, category |-> <<"m", "u", "s", "i", "c">>, period |-> "month"])
    @@ (<<"y", "a", "n", "d", "e", "x">> :> [name |-> <<"u042f", "u043d", "u0434", "u0435", "u043a", "u0441", " ", "u041f", "u043b", "u044e", "u0441">>, category |-> <<"o", "t", "h", "e", "r">>, period |-> "month"])
    @@ (<<"u044f", "u043d", "u0434", "u0435", "u043a", "u0441">> :> [name |-> <<"u042f", "u043d", "u0434", "u0435", "u043a", "u0441", " ", "u041f", "u043b", "u044e", "u0441">>, category |-> <<"o", "t", "h", "e", "r">>, period |-> "month"])
    @@ (<<"u044f", "u043d", "u0434", "u0435", "u043a", "u0441", " ", "u043f", "u043b", "u044e", "u0441">> :> [name |-> <<"u042f", "u043d", "u0434", "u0435", "u043a", "u0441", " ", "u041f", "u043b", "u044e", "u0441">>, category |-> <<"o", "t", "h", "e", "r">>, period |-> "month"])
    @@ (<<"o", "p", "e", "n", "a", "i">> :> [name |-> <<"O", "p", "e", "n", "A", "I">>, category |-> <<"s", "o", "f", "t", "w", "a", "r", "e">>, period |-> "month"])
    @@ (<<"c", "h", "a", "t", "g", "p", "t">> :> [name |-> <<"C", "h", "a", "t", "G", "P", "T", " ", "P", "l", "u", "s">>, category |-> <<"s", "o", "f", "t", "w", "a", "r", "e">>, period |-> "month"])
    @@ (<<"c", "l", "a", "u", "d", "e">> :> [name |-> <<"C", "l", "a", "u", "d", "e", " ", "P", "r", "o">>, category |-> <<"s", "o", "f", "t", "w", "a", "r", "e">>, period |-> "month"])
    @@ (<<"n", "o", "t", "i", "o", "n">> :> [name |-> <<"N", "o", "t", "i", "o", "n">>, category |-> <<"s", "o", "f", "t", "w", "a", "r", "e">>, period |-> "month"])
    @@ (<<"f", "i", "g", "m", "a">> :> [name |-> <<"F", "i", "g", "m", "a">>, category |-> <<"s", "o", "f", "t", "w", "a", "r", "e">>, period |-> "month"])
    @@ (<<"a", "d", "o", "b", "e">> :> [name |-> <<"A", "d", "o", "b", "e", " ", "C", "C">>, category |-> <<"s", "o", "f", "t", "w", "a", "r", "e">>, period |-> "month"])
    @@ (<<"d", "r", "o", "p", "b", "o", "x">> :> [name |-> <<"D", "r", "o", "p", "b", "o", "x">>, category |-> <<"c", "l", "o", "u", "d">>, period |-> "month"])
    @@ (<<"i", "c", "l", "o", "u", "d">> :> [name |-> <<"i", "C", "l", "o", "u", "d", "+">>, category |-> <<"c", "l", "o", "u", "d">>, period |-> "month"])
    @@ (<<"g", "o", "o", "g", "l", "e", " ", "o", "n", "e">> :> [name |-> <<"G", "o", "o", "g", "l", "e", " ", "O", "n", "e">>, category |-> <<"c", "l", "o", "u", "d">>, period |-> "month"])
    @@ (<<"t", "e", "l", "e", "g", "r", "a", "m">> :> [name |-> <<"T", "e", "l", "e", "g", "r", "a", "m", " ", "P", "r", "e", "m", "i", "u", "m">>, category |-> <<"o", "t", "h", "e", "r">>, period |-> "month"])
    @@ (<<"t", "e", "l", "e", "g", "r", "a", "m", " ", "p", "r", "e", "m", "i", "u", "m">> :> [name |-> <<"T", "e", "l", "e", "g", "r", "a", "m", " ", "P", "r", "e", "m", "i", "u", "m">>, category |-> <<"o", "t", "h", "e", "r">>, period |-> "month"])
    @@ (<<"d", "i", "s", "c", "o", "r", "d">> :> [name |-> <<"D", "i", "s", "c", "o", "r", "d", " ", "N", "i", "t", "r", "o">>, category |-> <<"o", "t", "h", "e", "r">>, period |-> "month"])
    @@ (<<"d", "i", "s", "c", "o", "r", "d", " ", "n", "i", "t", "r", "o">> :> [name |-> <<"D", "i", "s", "c", "o", "r", "d", " ", "N", "i", "t", "r", "o">>, category |-> <<"o", "t", "h", "e", "r">>, period |-> "month"])
    @@ (<<"x", "b", "o", "x">> :> [name |-> <<"X", "b", "o", "x", " ", "G", "a", "m", "e", " ", "P", "a", "s", "s">>, category |-> <<"g", "a", "m", "e", "s">>, period |-> "month"])
    @@ (<<"x", "b", "o", "x", " ", "g", "a", "m", "e", " ", "p", "a", "s", "s">> :> [name |-> <<"X", "b", "o", "x", " ", "G", "a", "m", "e", " ", "P", "a", "s", "s">>, category |-> <<"g", "a", "m", "e", "s">>, period |-> "month"])
    @@ (<<"p", "l", "a", "y", "s", "t", "a", "t", "i", "o", "n">> :> [name |-> <<"P", "l", "a", "y", "S", "t", "a", "t", "i", "o", "n", " ", "P", "l", "u", "s">>, category |-> <<"g", "a", "m", "e", "s">>, period |-> "month"])
    @@ (<<"p", "s", " ", "p", "l", "u", "s">> :> [name |-> <<"P", "l", "a", "y", "S", "t", "a", "t", "i", "o", "n", " ", "P", "l", "u", "s">>, category |-> <<"g", "a", "m", "e", "s">>, period |-> "month"])
    @@ (<<"n", "i", "n", "t", "e", "n", "d", "o">> :> [name |-> <<"N", "i", "n", "t", "e", "n", "d", "o", " ", "O", "n", "l", "i", "n", "e">>, category |-> <<"g", "a", "m", "e", "s">>, period |-> "year"])
    @@ (<<"h", "b", "o">> :> [name |-> <<"H", "B", "O", " ", "M", "a", "x">>, category |-> <<"v", "i", "d", "e", "o">>, period |-> "month"])
    @@ (<<"h", "b", "o", " ", "m", "a", "x">> :> [name |-> <<"H", "B", "O", " ", "M", "a", "x">>, category |-> <<"v", "i", "d", "e", "o">>, period |-> "month"])
    @@ (<<"d", "i", "s", "n", "e", "y">> :> [name |-> <<"D", "i", "s", "n", "e", "y", "+">>, category |-> <<"v", "i", "d", "e", "o">>, period |-> "month"])
    @@ (<<"d", "i", "s", "n", "e", "y", "+">> :> [name |-> <<"D", "i", "s", "n", "e", "y", "+">>, category |-> <<"v", "i", "d", "e", "o">>, period |-> "month"])
    @@ (<<"a", "m", "a", "z", "o", "n", " ", "p", "r", "i", "m", "e">> :> [name |-> <<"A", "m", "a", "z", "o", "n", " ", "P", "r", "i", "m", "e">>, category |-> <<"v", "i", "d", "e", "o">>, period |-> "month"])
    @@ (<<"p", "r", "i", "m", "e">> :> [name |-> <<"A", "m", "a", "z", "o", "n", " ", "P", "r", "i", "m", "e">>, category |-> <<"v", "i", "d", "e", "o">>, period |-> "month"])
    @@ (<<"k", "i", "n", "d", "l", "e">> :> [name |-> <<"K", "i", "n", "d", "l", "e", " ", "U", "n", "l", "i", "m", "i", "t", "e", "d">>, category |-> <<"o", "t", "h", "e", "r">>, period |-> "month"])
    @@ (<<"a", "u", "d", "i", "b", "l", "e">> :> [name |-> <<"A", "u", "d", "i", "b", "l", "e">>, category |-> <<"o", "t", "h", "e", "r">>, period |-> "month"])
    @@ (<<"v", "p", "n">> :> [name |-> <<"V", "P", "N">>, category |-> <<"s", "o", "f", "t", "w", "a", "r", "e">>, period |-> "month"])
    @@ (<<"n", "o", "r", "d", "v", "p", "n">> :> [name |-> <<"N", "o", "r", "d", "V", "P", "N">>, category |-> <<"s", "o", "f", "t", "w", "a", "r", "e">>, period |-> "month"])
    @@ (<<"e", "x", "p", "r", "e", "s", "s", "v", "p", "n">> :> [name |-> <<"E", "x", "p", "r", "e", "s", "s", "V", "P", "N">>, category |-> <<"s", "o", "f", "t", "w", "a", "r", "e">>, period |-> "month"])
    @@ (<<"1", "p", "a", "s", "s", "w", "o", "r", "d">> :> [name |-> <<"1", "P", "a", "s", "s", "w", "o", "r", "d">>, category |-> <<"s", "o", "f", "t", "w", "a", "r", "e">>, period |-> "month"])
    @@ (<<"l", "a", "s", "t", "p", "a", "s", "s">> :> [name |-> <<"L", "a", "s", "t", "P", "a", "s", "s">>, category |-> <<"s", "o", "f", "t", "w", "a", "r", "e">>, period |-> "month"])
    @@ (<<"s", "u", "n", "o">> :> [name |-> <<"S", "u", "n", "o">>, category |-> <<"s", "o", "f", "t", "w", "a", "r", "e">>, period |-> "month"])
    @@ (<<"m", "i", "d", "j", "o", "u", "r", "n", "e", "y">> :> [name |-> <<"M", "i", "d", "j", "o", "u", "r", "n", "e", "y">>, category |-> <<"s", "o", "f", "t", "w", "a", "r", "e">>, period |-> "month"])
    @@ (<<"g", "i", "t", "h", "u", "b">> :> [name |-> <<"G", "i", "t", "H", "u", "b", " ", "P", "r", "o">>, category |-> <<"s", "o", "f", "t", "w", "a", "r", "e">>, period |-> "month"])
    @@ (<<"g", "i", "t", "h", "u", "b", " ", "c", "o", "p", "i", "l", "o", "t">> :> [name |-> <<"G", "i", "t", "H", "u", "b", " ", "C", "o", "p", "i", "l", "o", "t">>, category |-> <<"s", "o", "f", "t", "w", "a", "r", "e">>, period |-> "month"])
    @@ (<<"c", "o", "p", "i", "l", "o", "t">> :> [name |-> <<"G", "i", "t", "H", "u", "b", " ", "C", "o", "p", "i", "l", "o", "t">>, category |-> <<"s", "o", "f", "t", "w", "a", "r", "e">>, period |-> "month"])

-----------------------------------------------------------------------------
(* STRINGS (str methods used by the code)                                  *)

DIGITS == {"0", "1", "2", "3", "4", "5", "6", "7", "8", "9"}

DIGIT_VALUE ==
    ("0" :> 0) @@ ("1" :> 1) @@ ("2" :> 2) @@ ("3" :> 3) @@ ("4" :> 4)
    @@ ("5" :> 5) @@ ("6" :> 6) @@ ("7" :> 7) @@ ("8" :> 8) @@ ("9" :> 9)

DIGIT_CHAR == [v \in 0..9 |-> CHOOSE c \in DIGITS : DIGIT_VALUE[c] = v]

py_lower(s) == [i \in 1..Len(s) |-> IF s[i] \in DOMAIN LOWER_OF THEN LOWER_OF[s[i]] ELSE s[i]]

py_upper(s) == [i \in 1..Len(s) |-> IF s[i] \in DOMAIN UPPER_OF THEN UPPER_OF[s[i]] ELSE s[i]]

sql_lower(s) == [i \in 1..Len(s) |-> IF s[i] \in DOMAIN SQL_LOWER_OF THEN SQL_LOWER_OF[s[i]] ELSE s[i]]

RECURSIVE py_lstrip(_)
py_lstrip(s) == IF s # <<>> /\ Head(s) = " " THEN py_lstrip(Tail(s)) ELSE s

RECURSIVE py_rstrip(_)
py_rstrip(s) ==
    IF s # <<>> /\ s[Len(s)] = " " THEN py_rstrip(SubSeq(s, 1, Len(s) - 1)) ELSE s

py_strip(s) == py_rstrip(py_lstrip(s))

\* s.split(sep): the pieces between the separators, empty pieces kept
RECURSIVE py_split_sep(_, _)
py_split_sep(s, sep) ==
    IF \A i \in 1..Len(s) : s[i] # sep THEN <<s>>
    ELSE LET i == CHOOSE k \in 1..Len(s) : s[k] = sep /\ \A j \in 1..(k - 1) : s[j] # sep
         IN  <<SubSeq(s, 1, i - 1)>> \o py_split_sep(SubSeq(s, i + 1, Len(s)), sep)

\* s.split(sep, maxsplit)
RECURSIVE py_split_max(_, _, _)
py_split_max(s, sep, maxsplit) ==
    IF maxsplit = 0 \/ \A i \in 1..Len(s) : s[i] # sep THEN <<s>>
    ELSE LET i == CHOOSE k \in 1..Len(s) : s[k] = sep /\ \A j \in 1..(k - 1) : s[j] # sep
         IN  <<SubSeq(s, 1, i - 1)>>
                 \o py_split_max(SubSeq(s, i + 1, Len(s)), sep, maxsplit - 1)

\* s.split(): split on runs of whitespace
py_split(s) == SelectSeq(py_split_sep(s, " "), LAMBDA p : p # <<>>)

RECURSIVE py_join(_, _)
py_join(sep, parts) ==
    IF parts = <<>> THEN <<>>
    ELSE IF Len(parts) = 1 THEN parts[1]
    ELSE parts[1] \o sep \o py_join(sep, Tail(parts))

\* s.replace(old, new) for a one-character old
RECURSIVE py_replace(_, _, _)
py_replace(s, old, new) ==
    IF s = <<>> THEN <<>>
    ELSE (IF Head(s) = old THEN new ELSE <<Head(s)>>) \o py_replace(Tail(s), old, new)

py_startswith(s, prefix) ==
    Len(s) >= Len(prefix) /\ SubSeq(s, 1, Len(prefix)) = prefix

IsDigits(s) == s # <<>> /\ \A i \in 1..Len(s) : s[i] \in DIGITS

RECURSIVE digits_value(_)
digits_value(s) ==
    IF s = <<>> THEN 0
    ELSE digits_value(SubSeq(s, 1, Len(s) - 1)) * 10 + DIGIT_VALUE[s[Len(s)]]

RECURSIVE int_str(_)
int_str(n) ==
    IF n < 10 THEN <<DIGIT_CHAR[n]>> ELSE int_str(n \div 10) \o <<DIGIT_CHAR[n % 10]>>

\* zero padded decimal number ({n:02d}, {n:04d})
RECURSIVE zero_pad(_, _)
zero_pad(s, width) == IF Len(s) >= width THEN s ELSE zero_pad(<<"0">> \o s, width)

-----------------------------------------------------------------------------
(* FLOATS: an amount is an integer number of thousandths.  The texts of    *)
(* the model carry at most three decimals and no exponent, "inf" or "nan". *)

\* an optional value is None or Some(v); a ValueError, which every caller
\* catches, is None as well
Some(v) == <<v>>
IsSome(o) == o # <<>>
Get(o) == o[1]

\* thousandths denoted by the digits after the decimal point
frac_value(f) ==
    LET p == SubSeq(f \o <<"0", "0", "0">>, 1, 3) IN digits_value(p)

unsigned_float(s) ==
    LET ps == py_split_sep(s, ".")
    IN  IF Len(ps) = 1 THEN
            (IF IsDigits(ps[1]) THEN Some(digits_value(ps[1]) * 1000) ELSE None)
        ELSE IF Len(ps) = 2 THEN
            (IF /\ (ps[1] = <<>> \/ IsDigits(ps[1]))
                /\ (ps[2] = <<>> \/ IsDigits(ps[2]))
                /\ ~(ps[1] = <<>> /\ ps[2] = <<>>)
             THEN Some(digits_value(ps[1]) * 1000 + frac_value(ps[2]))
             ELSE None)
        ELSE None

\* float("inf") and float("nan"): two values outside the finite amounts
FLOAT_INF == 2000000000
FLOAT_NAN == 0 - 2000000001

\* the words float accepts besides decimal numbers, in any letter case
special_float(s) ==
    LET low == py_lower(s)
    IN  IF low = <<"n", "a", "n">> THEN Some(FLOAT_NAN)
        ELSE IF low \in {<<"i", "n", "f">>, <<"i", "n", "f", "i", "n", "i", "t", "y">>}
             THEN Some(FLOAT_INF)
        ELSE unsigned_float(s)

\* float(text): Some(amount), or None for ValueError (texts with an
\* exponent, an underscore or digits outside 0-9 are not drawn)
py_float(text) ==
    LET s == py_strip(text)
    IN  IF s = <<>> THEN None
        ELSE IF Head(s) = "-" THEN
            (LET v == special_float(Tail(s))
             IN  IF ~IsSome(v) THEN None
                 ELSE IF Get(v) = FLOAT_NAN THEN v
                 ELSE Some(0 - Get(v)))
        ELSE IF Head(s) = "+" THEN special_float(Tail(s))
        ELSE special_float(s)

\* comparisons of floats: every comparison with nan is false
float_le(a, b) == a # FLOAT_NAN /\ b # FLOAT_NAN /\ a <= b
float_gt(a, b) == a # FLOAT_NAN /\ b # FLOAT_NAN /\ a > b

\* nearest hundredth of a non-negative amount (the amounts of the model
\* have no 5 as third decimal, where the binary float decides the tie)
round_cents(a) == (a + 5) \div 10

\* f"{amount:.2f}"
format_2f(amount) ==
    LET c == round_cents(IF amount < 0 THEN 0 - amount ELSE amount)
        body == int_str(c \div 100) \o <<".">> \o zero_pad(int_str(c % 100), 2)
    IN  IF amount = FLOAT_NAN THEN <<"n", "a", "n">>
        ELSE IF amount = FLOAT_INF THEN <<"i", "n", "f">>
        ELSE IF amount = 0 - FLOAT_INF THEN <<"-", "i", "n", "f">>
        ELSE IF amount < 0 THEN <<"-">> \o body ELSE body

RECURSIVE strip_zeros(_)
strip_zeros(s) ==
    IF Len(s) > 1 /\ s[Len(s)] = "0" THEN strip_zeros(SubSeq(s, 1, Len(s) - 1)) ELSE s

\* f"{amount}" (repr of a float): shortest decimal text, at least one decimal
float_repr(amount) ==
    LET a == IF amount < 0 THEN 0 - amount ELSE amount
        body == int_str(a \div 1000) \o <<".">> \o strip_zeros(zero_pad(int_str(a % 1000), 3))
    IN  IF amount = FLOAT_NAN THEN <<"n", "a", "n">>
        ELSE IF amount = FLOAT_INF THEN <<"i", "n", "f">>
        ELSE IF amount = 0 - FLOAT_INF THEN <<"-", "i", "n", "f">>
        ELSE IF amount < 0 THEN <<"-">> \o body ELSE body

-----------------------------------------------------------------------------
(* DATE TEXTS                                                              *)

valid_date(y, m, d) ==
    /\ y \in 1..9999 /\ m \in 1..12
    /\ d >= 1 /\ d <= days_in_month(y, m)

\* d.isoformat()
isoformat(d) ==
    zero_pad(int_str(d.year), 4) \o <<"-">> \o zero_pad(int_str(d.month), 2)
        \o <<"-">> \o zero_pad(int_str(d.day), 2)

\* date.fromisoformat(text) for the form YYYY-MM-DD: Some(date) or None
fromisoformat(text) ==
    LET ps == py_split_sep(text, "-")
    IN  IF /\ Len(ps) = 3
           /\ Len(ps[1]) = 4 /\ IsDigits(ps[1])
           /\ Len(ps[2]) = 2 /\ IsDigits(ps[2])
           /\ Len(ps[3]) = 2 /\ IsDigits(ps[3])
           /\ valid_date(digits_value(ps[1]), digits_value(ps[2]), digits_value(ps[3]))
        THEN Some(date(digits_value(ps[1]), digits_value(ps[2]), digits_value(ps[3])))
        ELSE None

\* datetime.strptime(text, "%d.%m.%y" or "%d.%m.%Y").date():
\* %d and %m take one or two digits, %y exactly two (00-68 -> 20xx, 69-99 -> 19xx),
\* %Y exactly four
strptime_dmy(text, year_digits) ==
    LET ps == py_split_sep(text, ".")
    IN  IF /\ Len(ps) = 3
           /\ IsDigits(ps[1]) /\ Len(ps[1]) <= 2
           /\ IsDigits(ps[2]) /\ Len(ps[2]) <= 2
           /\ IsDigits(ps[3]) /\ Len(ps[3]) = year_digits
        THEN LET d == digits_value(ps[1])
                 m == digits_value(ps[2])
                 yy == digits_value(ps[3])
                 y == IF year_digits = 4 THEN yy
                      ELSE IF yy <= 68 THEN 2000 + yy ELSE 1900 + yy
             IN  IF valid_date(y, m, d) THEN Some(date(y, m, d)) ELSE None
        ELSE None

parse_ru_date(text) ==
    LET t == py_strip(text)
        short == strptime_dmy(t, 2)
        long == strptime_dmy(t, 4)
    IN  IF IsSome(short) THEN short
        ELSE IF IsSome(long) THEN long
        ELSE None

-----------------------------------------------------------------------------
(* PRICE & CURRENCY HELPERS                                                *)

MAX_NAME_LENGTH == 100
MAX_PRICE == 1000000

normalize_currency_token_exact(token) ==
    LET t == py_strip(token)
    IN  IF t = <<>> THEN <<>>
        ELSE IF t \in DOMAIN CURRENCY_ALIASES THEN CURRENCY_ALIASES[t]
        ELSE py_upper(t)

normalize_currency_token(token) ==
    LET t == py_strip(token)
        low == py_lower(t)
    IN  IF t = <<>> THEN <<>>
        ELSE IF low \in DOMAIN CURRENCY_ALIASES THEN CURRENCY_ALIASES[low]
        ELSE py_upper(t)

is_currency_token(token) == normalize_currency_token(token) \in SUPPORTED_CURRENCIES

\* the result tuple (amount, currency)
Price(amount, currency) == [amount |-> amount, currency |-> currency]

parse_price(input_str) ==
    LET s == py_strip(input_str)
        parts == py_split(s)
    IN  IF s = <<>> THEN None
        ELSE IF Len(parts) > 2 THEN None
        ELSE LET currency == IF Len(parts) = 1 THEN <<"N", "O", "K">>    \* DEFAULT_CURRENCY
                             ELSE normalize_currency_token(parts[2])
                 amount_str == py_replace(py_replace(parts[1], ",", <<".">>), " ", <<>>)
                 amount == py_float(amount_str)
             IN  IF currency \notin SUPPORTED_CURRENCIES THEN None
                 ELSE IF ~IsSome(amount) THEN None
                 ELSE IF float_le(Get(amount), 0) \/ float_gt(Get(amount), MAX_PRICE * 1000)
                      THEN None
                 ELSE Some(Price(Get(amount), currency))

CATEGORY_OTHER == <<"o", "t", "h", "e", "r">>

\* the result tuple (name, amount, currency, last_dt, category)
QuickAdd(name, amount, currency, last_dt, category) ==
    [name |-> name, amount |-> amount, currency |-> currency,
     last_dt |-> last_dt, category |-> category]

try_parse_quick_add_default_date(text) ==
    LET s == py_strip(text)
        parts == py_split(s)
        n == Len(parts)
    IN  IF s = <<>> THEN None
        ELSE IF n < 3 THEN None
        ELSE LET parsed_dt == parse_ru_date(parts[n])
                 last_dt == IF IsSome(parsed_dt) THEN parsed_dt ELSE Some(date(2026, 1, 1))
                 with_currency == n >= 4 /\ is_currency_token(parts[n - 1])
                 price_raw == IF with_currency
                              THEN parts[n - 2] \o <<" ">> \o parts[n - 1]
                              ELSE parts[n - 1]
                 name_parts == IF with_currency THEN SubSeq(parts, 1, n - 3)
                               ELSE SubSeq(parts, 1, n - 2)
                 name == py_strip(py_join(<<" ">>, name_parts))
                 parsed_price == parse_price(price_raw)
             IN  IF name_parts = <<>> THEN None
                 ELSE IF Len(name) > MAX_NAME_LENGTH THEN None
                 ELSE IF ~IsSome(parsed_price) THEN None
                 ELSE Some(QuickAdd(name, Get(parsed_price).amount,
                                    Get(parsed_price).currency, Get(last_dt),
                                    CATEGORY_OTHER))

try_parse_quick_add(text) ==
    LET s == py_strip(text)
        parts == py_split(s)
        n == Len(parts)
    IN  IF s = <<>> THEN None
        ELSE IF n < 3 THEN None
        ELSE LET last_dt == parse_ru_date(parts[n])
                 with_currency == n >= 4 /\ is_currency_token(parts[n - 1])
                 price_raw == IF with_currency
                              THEN parts[n - 2] \o <<" ">> \o parts[n - 1]
                              ELSE parts[n - 1]
                 name_parts == IF with_currency THEN SubSeq(parts, 1, n - 3)
                               ELSE SubSeq(parts, 1, n - 2)
                 name == py_strip(py_join(<<" ">>, name_parts))
                 parsed_price == parse_price(price_raw)
                 name_lower == py_lower(name)
             IN  IF ~IsSome(last_dt) THEN None
                 ELSE IF name_parts = <<>> THEN None
                 ELSE IF Len(name) > MAX_NAME_LENGTH THEN None
                 ELSE IF ~IsSome(parsed_price) THEN None
                 ELSE IF name_lower \in DOMAIN KNOWN_SERVICES
                      THEN Some(QuickAdd(KNOWN_SERVICES[name_lower].name,
                                         Get(parsed_price).amount, Get(parsed_price).currency,
                                         Get(last_dt), KNOWN_SERVICES[name_lower].category))
                      ELSE Some(QuickAdd(name, Get(parsed_price).amount,
                                         Get(parsed_price).currency, Get(last_dt),
                                         CATEGORY_OTHER))

pack_price_comma(amount, currency) ==
    py_replace(format_2f(amount), ".", <<",">>) \o <<" ">> \o currency

pack_price(amount, currency) == format_2f(amount) \o <<" ">> \o currency

unpack_price(price_text) ==
    LET parts == py_split(py_strip(price_text))
    IN  IF price_text = <<>> THEN None
        ELSE IF Len(parts) # 2 THEN None
        ELSE LET amount == py_float(parts[1])
                 currency == normalize_currency_token(parts[2])
             IN  IF ~IsSome(amount) THEN None
                 ELSE IF currency \notin SUPPORTED_CURRENCIES THEN None
                 ELSE Some(Price(Get(amount), currency))

DEFAULT_PERIOD == "month"

-----------------------------------------------------------------------------
(* READERS OF STORED PRICES                                                *)

CURRENCY_SYMBOL ==
    (<<"N", "O", "K">> :> <<"N", "O", "K">>) @@ (<<"E", "U", "R">> :> <<"u20ac">>)
    @@ (<<"U", "S", "D">> :> <<"$">>) @@ (<<"R", "U", "B">> :> <<"u20bd">>)
    @@ (<<"S", "E", "K">> :> <<"S", "E", "K">>) @@ (<<"D", "K", "K">> :> <<"D", "K", "K">>)
    @@ (<<"G", "B", "P">> :> <<"u00a3">>)

\* the thousands separator of the format ",": a comma before every group of
\* three digits
RECURSIVE group_thousands(_)
group_thousands(digits) ==
    IF Len(digits) <= 3 THEN digits
    ELSE group_thousands(SubSeq(digits, 1, Len(digits) - 3))
         \o <<",">> \o SubSeq(digits, Len(digits) - 2, Len(digits))

\* f"{amount:,.2f}"
format_comma_2f(amount) ==
    LET plain == format_2f(amount)
        negative == Head(plain) = "-"
        unsigned == IF negative THEN Tail(plain) ELSE plain
        ps == py_split_sep(unsigned, ".")
        body == group_thousands(ps[1]) \o <<".">> \o ps[2]
    IN  IF amount \in {FLOAT_NAN, FLOAT_INF, 0 - FLOAT_INF} THEN plain
        ELSE IF negative THEN <<"-">> \o body ELSE body

format_price(amount, currency) ==
    LET symbol == IF currency \in DOMAIN CURRENCY_SYMBOL THEN CURRENCY_SYMBOL[currency]
                  ELSE currency
        s == py_replace(py_replace(format_comma_2f(amount), ",", <<" ">>), ".", <<",">>)
    IN  IF currency \in {<<"E", "U", "R">>, <<"U", "S", "D">>, <<"G", "B", "P">>}
        THEN symbol \o s
        ELSE s \o <<" ">> \o symbol

\* list_cmd, next_cmd, send_reminders and the keyboards:
\* price_view = format_price(pp[0], pp[1]) if pp else price
price_view(price) ==
    LET pp == unpack_price(price)
    IN  IF IsSome(pp) THEN format_price(Get(pp).amount, Get(pp).currency) ELSE price

\* sum_cmd: the (amount, currency) a row adds to the totals, None for a row
\* the loop skips with continue
sum_term(price) == unpack_price(price)

\* export_to_csv: the amount and currency columns of a row
export_price(price) ==
    LET pp == unpack_price(price)
    IN  IF IsSome(pp) THEN Get(pp) ELSE Price(0, <<"N", "O", "K">>)

\* get_yearly_stats, payments by month: the (amount, currency) a payment
\* adds, None for a payment the loop skips with continue
monthly_term(amount) == unpack_price(amount)

\* INSTR(text, ' '): position of the first space, 0 when there is none
sql_instr_space(text) ==
    LET at == {i \in 1..Len(text) : text[i] = " "}
    IN  IF at = {} THEN 0 ELSE CHOOSE i \in at : \A j \in at : i <= j

\* SUBSTR(text, 1, INSTR(text, ' ') - 1): the text before the first space,
\* empty when there is no space
sql_before_space(text) ==
    LET n == sql_instr_space(text)
    IN  IF n = 0 THEN <<>> ELSE SubSeq(text, 1, n - 1)

\* SUBSTR(text, INSTR(text, ' ') + 1): the text after the first space, the
\* whole text when there is no space
sql_after_space(text) == SubSeq(text, sql_instr_space(text) + 1, Len(text))

\* a text read as a decimal number with an optional sign
signed_decimal(text) ==
    IF text = <<>> THEN None
    ELSE IF Head(text) = "-" THEN
        (LET v == unsigned_float(Tail(text)) IN IF IsSome(v) THEN Some(0 - Get(v)) ELSE None)
    ELSE IF Head(text) = "+" THEN unsigned_float(Tail(text))
    ELSE unsigned_float(text)

\* CAST(text AS REAL): the longest prefix that is a number, 0.0 when there
\* is none (texts with an exponent are not drawn)
sql_cast_real(text) ==
    LET t == py_lstrip(text)
        ks == {k \in 1..Len(t) : IsSome(signed_decimal(SubSeq(t, 1, k)))}
    IN  IF ks = {} THEN 0
        ELSE Get(signed_decimal(SubSeq(t, 1, CHOOSE k \in ks : \A j \in ks : j <= k)))

\* get_yearly_stats, payments by subscription: the row (total, currency) a
\* payment gives on its own; the query has no condition on the amount
by_subscription(amount) ==
    Some([total |-> sql_cast_real(sql_before_space(amount)),
          currency |-> sql_after_space(amount)])

\* next_cmd and send_reminders: the next charge date of a stored row on the
\* day today; a row without a readable last charge date goes by its day
next_charge(s, today) ==
    LET last_dt == IF s.last_charge_date = <<>> THEN None
                   ELSE fromisoformat(s.last_charge_date)
    IN  IF IsSome(last_dt) THEN next_from_last(Get(last_dt), s.period, today)
        ELSE next_by_day(s.day, today)

-----------------------------------------------------------------------------
(* DB LAYER                                                                *)

MAX_SUBSCRIPTIONS_PER_USER == 50

\* a row of the table subscriptions; last_charge_date is None (NULL) or a text
Subscription(id, user_id, name, price, day, period, last_charge_date, category) ==
    [id |-> id, user_id |-> user_id, name |-> name, price |-> price, day |-> day,
     period |-> period, last_charge_date |-> last_charge_date,
     category |-> category, is_paused |-> 0]

count_user_subscriptions(user_id) ==
    Cardinality({s \in subscriptions : s.user_id = user_id})

\* SELECT ... WHERE user_id = ? AND LOWER(name) = LOWER(?), fetchone():
\* the matching row with the lowest id
find_duplicate_subscription(user_id, name) ==
    LET rows == {s \in subscriptions :
                     s.user_id = user_id /\ sql_lower(s.name) = sql_lower(name)}
    IN  IF rows = {} THEN None
        ELSE Some(CHOOSE s \in rows : \A t \in rows : s.id <= t.id)

\* INSERT INTO subscriptions: the table with the new row (id = next_sub_id)
add_subscription(user_id, name, price, day, period, last_charge_date, category) ==
    subscriptions \cup
        {Subscription(next_sub_id, user_id, name, price, day, period,
                      last_charge_date, category)}

\* DELETE FROM subscriptions WHERE id = ? AND user_id = ?: the table without
\* the row.  No connection executes PRAGMA foreign_keys = ON, so the clause
\* ON DELETE CASCADE of payment_history is not enforced and the payments of
\* the row stay
delete_subscription(user_id, sub_id) ==
    {s \in subscriptions : ~(s.id = sub_id /\ s.user_id = user_id)}

\* SELECT ... WHERE id = ? AND user_id = ?, fetchone()
get_subscription_by_id(user_id, sub_id) ==
    LET rows == {s \in subscriptions : s.id = sub_id /\ s.user_id = user_id}
    IN  IF rows = {} THEN None ELSE Some(CHOOSE s \in rows : TRUE)

\* the table after the pause flag of the row was flipped
toggle_pause_subscription(user_id, sub_id) ==
    {IF s.id = sub_id /\ s.user_id = user_id
         THEN [s EXCEPT !.is_paused = IF s.is_paused # 0 THEN 0 ELSE 1] ELSE s :
     s \in subscriptions}

\* INSERT INTO payment_history: the table with the new row (id = next_pay_id)
add_payment(user_id, sub_id, amount, paid_at) ==
    payment_history \cup
        {[id |-> next_pay_id, subscription_id |-> sub_id, user_id |-> user_id,
          amount |-> amount, paid_at |-> paid_at]}

\* get_yearly_stats: the payment rows behind each part of the result.
\* payments are the rows of the first query (payment_count is their number),
\* monthly those of them that add to monthly and total_by_currency, and
\* by_subscription the rows of the second query, which joins subscriptions.
\* paid_at is an ISO date text, so the comparison with the first and the
\* last day of the year is a comparison of the year
get_yearly_stats(user_id, year) ==
    LET payments ==
            {p \in payment_history :
                 /\ p.user_id = user_id
                 /\ IsSome(fromisoformat(p.paid_at))
                 /\ Get(fromisoformat(p.paid_at)).year = year}
    IN  [payments |-> payments,
         monthly |-> {p \in payments : IsSome(monthly_term(p.amount))},
         by_subscription |->
             {p \in payments : \E s \in subscriptions : s.id = p.subscription_id}]

allowed ==
    {"name", "price", "day", "period", "last_charge_date", "category", "is_paused"}

\* the update without the condition on the owner
update_subscription_field_any_owner(subs, user_id, sub_id, field, value) ==
    IF field \notin allowed THEN subs
    ELSE {IF s.id = sub_id THEN [s EXCEPT ![field] = value] ELSE s : s \in subs}

\* UPDATE subscriptions SET field = ? WHERE id = ? AND user_id = ?, on table subs
update_subscription_field(subs, user_id, sub_id, field, value) ==
    IF field \notin allowed THEN subs
    ELSE {IF s.id = sub_id /\ s.user_id = user_id THEN [s EXCEPT ![field] = value] ELSE s :
              s \in subs}

-----------------------------------------------------------------------------
(* Session state and messages of the bot                                   *)

Users == {1, 2}

\* the message the bot answers with: its kind and the subscription id it names
Reply(kind, id) == [kind |-> kind, id |-> id]

\* the candidate of an add operation as it is written into callback data;
\* last_date is the ISO text or the empty text, day is given by /add only
Candidate(name, amount, currency, last_date, category, day) ==
    [name |-> name, amount |-> amount, currency |-> currency,
     last_date |-> last_date, category |-> category, day |-> day]

\* new_data = f"{name}|{amount}|{currency}|{last_date}|{category}" (and f"|{day}" in /add)
new_data_of(c) ==
    c.name \o <<"|">> \o float_repr(c.amount) \o <<"|">> \o c.currency \o <<"|">>
        \o c.last_date \o <<"|">> \o c.category
        \o (IF IsSome(c.day) THEN <<"|">> \o int_str(Get(c.day)) ELSE <<>>)

\* int(text): Some(n) or None for ValueError
py_int(text) ==
    LET s == py_strip(text)
    IN  IF IsDigits(s) THEN Some(digits_value(s)) ELSE None


BotInit ==
    /\ subscriptions = {}
    /\ next_sub_id = 1
    /\ payment_history = {}
    /\ next_pay_id = 1
    \* context.user_data of one user: every key is absent (None) or Some(value)
    /\ user_data =
           [u \in Users |->
                [add_name |-> None, add_amount |-> None, add_currency |-> None,
                 add_category |-> None, add_duplicate |-> None,
                 add_suggested_period |-> None, edit_id |-> None, edit_field |-> None]]
    /\ conv = [u \in Users |-> "END"]
    /\ reply = Reply("none", 0)

-----------------------------------------------------------------------------
(* Inputs of the recurrence calculator                                     *)

Dates ==
    {date(y, m, d) : y \in YearMin..YearMax, m \in 1..12, d \in DaySamples}
    \cap {dt \in [year : YearMin..YearMax, month : 1..12, day : DaySamples] :
              dt.day <= days_in_month(dt.year, dt.month)}

-----------------------------------------------------------------------------
(* next_from_last, one loop iteration per step                             *)

\* no call of next_from_last in progress
RecurIdle ==
    /\ nfl_last = date(YearMin, 1, 1)
    /\ nfl_period = "month"
    /\ nfl_today = date(YearMin, 1, 1)
    /\ candidate = date(YearMin, 1, 1)
    /\ nfl_pc = "done"

\* no call of a text helper in progress
TextIdle ==
    /\ fn_op = "none"
    /\ fn_arg = None
    /\ fn_res = None
    /\ fn_pc = "done"

InitRecur ==
    /\ TextIdle
    /\ BotInit
    /\ nfl_last \in Dates
    /\ nfl_period \in {"month", "year", "week"}
    /\ nfl_today \in Dates
    /\ candidate = nfl_last
    /\ nfl_pc = "call"

\* candidate = last
NflCall ==
    /\ nfl_pc = "call"
    /\ candidate' = nfl_last
    /\ nfl_pc' = "loop"
    /\ UNCHANGED <<nfl_last, nfl_period, nfl_today>>
    /\ UNCHANGED <<textVars, botVars>>

\* while candidate < today: advance
NflIter ==
    /\ nfl_pc = "loop"
    /\ DateLT(candidate, nfl_today)
    /\ candidate' = next_from_last_body(candidate, nfl_period)
    /\ UNCHANGED <<nfl_last, nfl_period, nfl_today, nfl_pc>>
    /\ UNCHANGED <<textVars, botVars>>

\* return candidate
NflReturn ==
    /\ nfl_pc = "loop"
    /\ ~DateLT(candidate, nfl_today)
    /\ nfl_pc' = "done"
    /\ UNCHANGED <<nfl_last, nfl_period, nfl_today, candidate>>
    /\ UNCHANGED <<textVars, botVars>>

NextRecur ==
    \/ NflCall
    \/ NflIter
    \/ NflReturn

SpecRecur == InitRecur /\ [][NextRecur]_vars

FairSpecRecur == SpecRecur /\ WF_vars(NflIter) /\ WF_vars(NflReturn)

-----------------------------------------------------------------------------
(* The calendar helpers, one call per behaviour                            *)

MaxMonths == 25         \* add_months is called with 0 .. MaxMonths
MaxYears == 4           \* add_years is called with -MaxYears .. MaxYears

InitDate ==
    /\ RecurIdle
    /\ BotInit
    /\ \/ fn_op = "add_months" /\ fn_arg \in [d : Dates, months : 0..MaxMonths]
       \/ fn_op = "add_years" /\ fn_arg \in [d : Dates, years : (-MaxYears)..MaxYears]
       \/ /\ fn_op = "next_by_day"
          /\ fn_arg \in [day_of_month : 1..31,
                         today : {dt \in [year : YearMin..YearMax, month : 1..12, day : 1..31] :
                                      dt.day <= days_in_month(dt.year, dt.month)}]
    /\ fn_res = None
    /\ fn_pc = "call"

CallAddMonths ==
    /\ fn_pc = "call" /\ fn_op = "add_months"
    /\ fn_res' = add_months(fn_arg.d, fn_arg.months)
    /\ fn_pc' = "done"
    /\ UNCHANGED <<fn_op, fn_arg>>
    /\ UNCHANGED <<recurVars, botVars>>

CallAddYears ==
    /\ fn_pc = "call" /\ fn_op = "add_years"
    /\ fn_res' = add_years(fn_arg.d, fn_arg.years)
    /\ fn_pc' = "done"
    /\ UNCHANGED <<fn_op, fn_arg>>
    /\ UNCHANGED <<recurVars, botVars>>

CallNextByDay ==
    /\ fn_pc = "call" /\ fn_op = "next_by_day"
    /\ fn_res' = next_by_day(fn_arg.day_of_month, fn_arg.today)
    /\ fn_pc' = "done"
    /\ UNCHANGED <<fn_op, fn_arg>>
    /\ UNCHANGED <<recurVars, botVars>>

NextDate ==
    \/ CallAddMonths
    \/ CallAddYears
    \/ CallNextByDay

SpecDate == InitDate /\ [][NextDate]_vars

-----------------------------------------------------------------------------
(* Inputs of the text helpers                                              *)

\* amount tokens and currency tokens
PriceTokens ==
    {<<"1", "2", "9">>, <<"1", "2", ",", "9", "9">>, <<"0">>, <<"0", ".", "0", "0", "1">>,
     <<"1", "0", "0", "0", "0", "0", "0">>, <<"1", "0", "0", "0", "0", "0", "1">>,
     <<"-", "5">>, <<"a", "b", "c">>, <<"n", "a", "n">>, <<"i", "n", "f">>}
    \cup
    {<<"k", "r">>, <<"K", "R">>, <<"K", "r">>, <<"e", "u", "r">>, <<"N", "O", "K">>,
     <<"u20ac">>, <<"u0440", "u0443", "u0431">>, <<"x", "y", "z">>}

\* texts of one, two or three tokens
QuickTokens ==
    {<<"N", "e", "t", "f", "l", "i", "x">>, <<"G", "y", "m">>,
     <<"1", "2", "9">>, <<"1", "2", ",", "9", "9">>, <<"0">>,
     <<"k", "r">>, <<"e", "u", "r">>,
     <<"1", "5", ".", "0", "1", ".", "2", "6">>, <<"1", ".", "2", ".", "2", "0", "2", "4">>,
     <<"3", "1", ".", "0", "2", ".", "2", "6">>}

RECURSIVE TokenLines(_)
TokenLines(n) ==
    IF n = 1 THEN QuickTokens
    ELSE LET shorter == TokenLines(n - 1)
         IN  shorter \cup {l \o <<" ">> \o t : l \in shorter, t \in QuickTokens}

-----------------------------------------------------------------------------
(* The text helpers, one call per behaviour                                *)

InitText ==
    /\ RecurIdle
    /\ BotInit
    /\ \/ /\ fn_op = "parse_price"
          \* one token, two tokens, three tokens, no token
          /\ fn_arg \in PriceTokens
                         \cup {a \o <<" ">> \o b : a \in PriceTokens, b \in PriceTokens}
                         \cup {<<"1", "2", "9", " ", "k", "r", " ", "x">>, <<>>, <<" ">>}
       \/ fn_op = "try_parse_quick_add" /\ fn_arg \in TokenLines(MaxTokens)
       \/ /\ fn_op = "pack_unpack"
          \* prices with amounts in thousandths; third decimal 5 (a rounding
          \* tie) is left out
          /\ fn_arg \in {Price(a, c) :
                             a \in {a \in 1..MaxSmallAmount : a % 10 # 5}
                                    \cup {990, 1000, 12990, 129000, 999999990, 999999994,
                                          999999996, MAX_PRICE * 1000},
                             c \in SUPPORTED_CURRENCIES}
    /\ fn_res = None
    /\ fn_pc = "call"

CallParsePrice ==
    /\ fn_pc = "call" /\ fn_op = "parse_price"
    /\ fn_res' = parse_price(fn_arg)
    /\ fn_pc' = "done"
    /\ UNCHANGED <<fn_op, fn_arg>>
    /\ UNCHANGED <<recurVars, botVars>>

CallQuickAdd ==
    /\ fn_pc = "call" /\ fn_op = "try_parse_quick_add"
    /\ fn_res' = try_parse_quick_add(fn_arg)
    /\ fn_pc' = "done"
    /\ UNCHANGED <<fn_op, fn_arg>>
    /\ UNCHANGED <<recurVars, botVars>>

\* the price is stored with pack_price and read back with unpack_price
CallPackUnpack ==
    /\ fn_pc = "call" /\ fn_op = "pack_unpack"
    /\ fn_res' = unpack_price(pack_price(fn_arg.amount, fn_arg.currency))
    /\ fn_pc' = "done"
    /\ UNCHANGED <<fn_op, fn_arg>>
    /\ UNCHANGED <<recurVars, botVars>>

NextText ==
    \/ CallParsePrice
    \/ CallQuickAdd
    \/ CallPackUnpack

SpecText == InitText /\ [][NextText]_vars

-----------------------------------------------------------------------------
(* The currency helpers, one call per token                                *)

\* the alias keys and the codes in lower case, in upper case and with the
\* first letter in upper case, and tokens that are no currency
NormTokens ==
    LET CurrencyKeys ==
            (DOMAIN CURRENCY_ALIASES) \cup {py_lower(c) : c \in SUPPORTED_CURRENCIES}
    IN  CurrencyKeys
        \cup {py_upper(k) : k \in CurrencyKeys}
        \cup {py_upper(<<Head(k)>>) \o Tail(k) : k \in CurrencyKeys}
        \cup {<<"x", "y", "z">>, <<"X", "Y", "Z">>, <<"1", "2", "9">>, <<"k">>, <<"n", "o">>,
              <<"n", "o", "k", "k">>, <<"k", "r", "x">>, <<"e", "u", "r", "o">>, <<"u", "s">>,
              <<"u0440", "u0443">>, <<"G", "y", "m">>, <<".">>,
              <<"1", "5", ".", "0", "1", ".", "2", "6">>}

InitCurrency ==
    /\ RecurIdle
    /\ BotInit
    /\ fn_op = "normalize_currency_token"
    /\ fn_arg \in NormTokens
    /\ fn_res = None
    /\ fn_pc = "call"

\* both helpers are applied to the token
CallNormalize ==
    /\ fn_pc = "call" /\ fn_op = "normalize_currency_token"
    /\ fn_res' = [normalized |-> normalize_currency_token(fn_arg),
                  is_currency |-> is_currency_token(fn_arg)]
    /\ fn_pc' = "done"
    /\ UNCHANGED <<fn_op, fn_arg>>
    /\ UNCHANGED <<recurVars, botVars>>

SpecCurrency == InitCurrency /\ [][CallNormalize]_vars

-----------------------------------------------------------------------------
(* The readers of a stored price, one stored text per behaviour            *)

\* texts of the columns subscriptions.price and payment_history.amount
StoredTexts ==
    LET StoredAmounts ==
            {<<"1", "2", "9", ".", "0", "0">>, <<"1", "2", "3", "4", ".", "5", "0">>,
             <<"0", ".", "0", "0">>, <<"-", "5", ".", "0", "0">>,
             <<"1", "2", "9", ",", "0", "0">>, <<"x">>, <<"n", "a", "n">>, <<"i", "n", "f">>}
        StoredCurrencies ==
            {<<"N", "O", "K">>, <<"E", "U", "R">>, <<"k", "r">>, <<"X", "Y", "Z">>,
             <<"N", "O", "K", " ", "e", "x", "t", "r", "a">>, <<"1", "2", "9", ".", "0", "0">>}
    IN  {a \o <<" ">> \o c : a \in StoredAmounts, c \in StoredCurrencies}
        \cup StoredAmounts
        \cup {<<>>, <<"a", "b", "c">>, <<"N", "O", "K">>}

InitStored ==
    /\ RecurIdle
    /\ BotInit
    /\ fn_op = "read_price"
    /\ fn_arg \in StoredTexts
    /\ fn_res = None
    /\ fn_pc = "call"

\* every reader is applied to the stored text
ReadStoredPrice ==
    /\ fn_pc = "call" /\ fn_op = "read_price"
    /\ fn_res' = [unpacked |-> unpack_price(fn_arg),
                  price_view |-> price_view(fn_arg),
                  sum_term |-> sum_term(fn_arg),
                  export_price |-> export_price(fn_arg),
                  monthly_term |-> monthly_term(fn_arg),
                  by_subscription |-> by_subscription(fn_arg)]
    /\ fn_pc' = "done"
    /\ UNCHANGED <<fn_op, fn_arg>>
    /\ UNCHANGED <<recurVars, botVars>>

SpecStored == InitStored /\ [][ReadStoredPrice]_vars

-----------------------------------------------------------------------------
(* Inputs of the bot                                                       *)

NAME_GYM == <<"G", "y", "m">>
TEXT_QUICK == <<"G", "y", "m", " ", "1", "2", "9", " ", "k", "r", " ",
                "1", "5", ".", "0", "1", ".", "2", "6">>

\* text messages: a quick-add line, a name, a price and a date (the menu
\* buttons, which only show data, are not among them)
BotTexts ==
    {TEXT_QUICK, <<"g", "y", "m">>, <<"1", "2", ",", "9", "9", " ", "e", "u", "r">>,
     <<"1", ".", "2", ".", "2", "0", "2", "4">>}

\* context.args of /add, with a day of the month
AddCmdArgs == {<<NAME_GYM, <<"9", "9">>, <<"1", "5">>>>}

\* the candidate a quick-add line gives (new_data of add_flow_name, menu_router)
quick_candidate(q) ==
    Candidate(q.name, q.amount, q.currency, isoformat(q.last_dt), q.category, None)

\* candidates as the add operations write them into callback data
Candidates ==
    {quick_candidate(Get(try_parse_quick_add(TEXT_QUICK))),
     Candidate(NAME_GYM, 99000, <<"N", "O", "K">>, <<>>, CATEGORY_OTHER, Some(15))}

DupKinds == {"dup_payment", "dup_update", "dup_create", "dup_cancel"}

KIND_TEXT ==
    ("dup_payment" :> <<"d", "u", "p", "_", "p", "a", "y", "m", "e", "n", "t">>)
    @@ ("dup_update" :> <<"d", "u", "p", "_", "u", "p", "d", "a", "t", "e">>)
    @@ ("dup_create" :> <<"d", "u", "p", "_", "c", "r", "e", "a", "t", "e">>)
    @@ ("dup_cancel" :> <<"d", "u", "p", "_", "c", "a", "n", "c", "e", "l">>)

\* callback data of the four buttons: dup_payment:<id>:<new_data>,
\* dup_update:<id>:<new_data>, dup_create:<new_data>, dup_cancel
callback_data(kind, existing_id, cand) ==
    IF kind = "dup_cancel" THEN KIND_TEXT[kind]
    ELSE IF kind = "dup_create" THEN KIND_TEXT[kind] \o <<":">> \o new_data_of(cand)
    ELSE KIND_TEXT[kind] \o <<":">> \o int_str(existing_id) \o <<":">> \o new_data_of(cand)

-----------------------------------------------------------------------------
(* ADD FLOW                                                                *)

\* add_subscription and the answer that names the new id
\* the rows a user has stored before the first step: one less than the
\* limit, with ids after those the steps of the other specifications give
Stock ==
    {Subscription(MaxSubs + i, 1, <<"s">> \o int_str(i), pack_price(129000, <<"N", "O", "K">>),
                  15, DEFAULT_PERIOD, <<>>, CATEGORY_OTHER) :
         i \in 1..(MAX_SUBSCRIPTIONS_PER_USER - 1)}

Inserted(kind, u, name, price, day, period, last_charge_date, category) ==
    \* the model holds at most MaxSubs rows more than the stock
    /\ Cardinality({s \in subscriptions : s \notin Stock}) < MaxSubs
    /\ subscriptions' = add_subscription(u, name, price, day, period, last_charge_date, category)
    /\ next_sub_id' = next_sub_id + 1
    /\ reply' = Reply(kind, next_sub_id)

\* reply_markup=duplicate_keyboard(dup_id, new_data): the name is defined
\* nowhere in src/main.py, so evaluating the arguments of reply_text raises
\* NameError; nothing is sent or stored, the handler returns no state (the
\* conversation stays where it was) and error_handler answers
DuplicateKeyboardRaises ==
    /\ reply' = Reply("error", 0)
    /\ UNCHANGED <<subscriptions, next_sub_id, payment_history, next_pay_id, user_data, conv>>

add_flow_start(u) ==
    /\ UNCHANGED <<subscriptions, next_sub_id, payment_history, next_pay_id>>
    /\ IF count_user_subscriptions(u) >= MAX_SUBSCRIPTIONS_PER_USER
       THEN /\ reply' = Reply("limit", 0)
            /\ conv' = [conv EXCEPT ![u] = "END"]
            /\ UNCHANGED user_data
       ELSE /\ user_data' = [user_data EXCEPT ![u] =
                                [@ EXCEPT !.add_name = None, !.add_amount = None,
                                          !.add_currency = None, !.add_category = None]]
            /\ reply' = Reply("ask_name", 0)
            /\ conv' = [conv EXCEPT ![u] = "ADD_NAME"]

\* text and parsed are the locals of the handler, each computed once
add_flow_name(u, text0) ==
    \E text \in {py_strip(text0)} :
    \E parsed \in {try_parse_quick_add(text)} :
    LET text_lower == py_lower(text)
        known == text_lower \in DOMAIN KNOWN_SERVICES
        name_to_check == IF known THEN KNOWN_SERVICES[text_lower].name ELSE text
        duplicate == find_duplicate_subscription(u, name_to_check)
    IN  /\ conv[u] = "ADD_NAME"
        /\ UNCHANGED <<payment_history, next_pay_id>>
        /\ IF count_user_subscriptions(u) >= MAX_SUBSCRIPTIONS_PER_USER THEN
               /\ reply' = Reply("limit", 0)
               /\ conv' = [conv EXCEPT ![u] = "END"]
               /\ UNCHANGED <<subscriptions, next_sub_id, user_data>>
           ELSE IF IsSome(parsed) THEN
               LET q == Get(parsed) IN
               /\ IF IsSome(find_duplicate_subscription(u, q.name))
                  THEN DuplicateKeyboardRaises
                  ELSE /\ Inserted("added", u, q.name, pack_price(q.amount, q.currency), q.last_dt.day,
                                   DEFAULT_PERIOD, isoformat(q.last_dt), q.category)
                       /\ conv' = [conv EXCEPT ![u] = "END"]
                       /\ UNCHANGED user_data
           ELSE IF text = <<>> \/ Len(text) > MAX_NAME_LENGTH THEN
               /\ reply' = Reply("bad_name", 0)
               /\ UNCHANGED <<subscriptions, next_sub_id, user_data, conv>>
           ELSE
               /\ user_data' = [user_data EXCEPT ![u] =
                     [@ EXCEPT !.add_name = Some(name_to_check),
                               !.add_duplicate =
                                   IF IsSome(duplicate) THEN Some(Get(duplicate)) ELSE @,
                               !.add_category =
                                   IF known THEN Some(KNOWN_SERVICES[text_lower].category)
                                   ELSE Some(CATEGORY_OTHER),
                               !.add_suggested_period =
                                   IF known THEN Some(KNOWN_SERVICES[text_lower].period) ELSE @]]
               /\ reply' = Reply("ask_price", 0)
               /\ conv' = [conv EXCEPT ![u] = "ADD_PRICE"]
               /\ UNCHANGED <<subscriptions, next_sub_id>>

add_flow_price(u, text) ==
    LET parsed == parse_price(py_strip(text))
    IN  /\ conv[u] = "ADD_PRICE"
        /\ UNCHANGED <<subscriptions, next_sub_id, payment_history, next_pay_id>>
        /\ IF ~IsSome(parsed)
           THEN /\ reply' = Reply("bad_price", 0)
                /\ UNCHANGED <<user_data, conv>>
           ELSE /\ user_data' = [user_data EXCEPT ![u] =
                      [@ EXCEPT !.add_amount = Some(Get(parsed).amount),
                                !.add_currency = Some(Get(parsed).currency)]]
                /\ reply' = Reply("ask_date", 0)
                /\ conv' = [conv EXCEPT ![u] = "ADD_DATE"]

\* the add_* keys popped when add_flow_date is done
add_keys_popped(ud) ==
    [ud EXCEPT !.add_name = None, !.add_amount = None, !.add_currency = None,
               !.add_category = None, !.add_duplicate = None,
               !.add_suggested_period = None]

add_flow_date(u, text) ==
    LET ud == user_data[u]
        last_dt == parse_ru_date(py_strip(text))
        category == IF IsSome(ud.add_category) THEN Get(ud.add_category) ELSE CATEGORY_OTHER
        suggested_period == IF IsSome(ud.add_suggested_period)
                            THEN Get(ud.add_suggested_period) ELSE DEFAULT_PERIOD
    IN  /\ conv[u] = "ADD_DATE"
        /\ UNCHANGED <<payment_history, next_pay_id>>
        /\ IF ~IsSome(ud.add_name) \/ ~IsSome(ud.add_amount) \/ ~IsSome(ud.add_currency) THEN
               /\ reply' = Reply("lost", 0)
               /\ conv' = [conv EXCEPT ![u] = "END"]
               /\ UNCHANGED <<subscriptions, next_sub_id, user_data>>
           ELSE IF ~IsSome(last_dt) THEN
               /\ reply' = Reply("bad_date", 0)
               /\ UNCHANGED <<subscriptions, next_sub_id, user_data, conv>>
           ELSE
               /\ IF IsSome(ud.add_duplicate)
                  THEN DuplicateKeyboardRaises
                  ELSE /\ Inserted("added", u, Get(ud.add_name),
                                   pack_price(Get(ud.add_amount), Get(ud.add_currency)),
                                   Get(last_dt).day, suggested_period,
                                   isoformat(Get(last_dt)), category)
                       /\ user_data' = [user_data EXCEPT ![u] = add_keys_popped(@)]
                       /\ conv' = [conv EXCEPT ![u] = "END"]

add_cmd(u, args) ==
    LET n == Len(args)
        last_dt == parse_ru_date(args[n])
        day_int == py_int(args[n])
        day == IF IsSome(last_dt) THEN Get(last_dt).day ELSE Get(day_int)
        last_charge_date == IF IsSome(last_dt) THEN isoformat(Get(last_dt)) ELSE None
        with_currency == n >= 4 /\ is_currency_token(args[n - 1])
        price_raw == IF with_currency THEN args[n - 2] \o <<" ">> \o args[n - 1]
                     ELSE args[n - 1]
        name_parts == IF with_currency THEN SubSeq(args, 1, n - 3) ELSE SubSeq(args, 1, n - 2)
        name0 == py_strip(py_join(<<" ">>, name_parts))
        parsed == parse_price(price_raw)
        known == py_lower(name0) \in DOMAIN KNOWN_SERVICES
        name == IF known THEN KNOWN_SERVICES[py_lower(name0)].name ELSE name0
        category == IF known THEN KNOWN_SERVICES[py_lower(name0)].category ELSE CATEGORY_OTHER
    IN  /\ UNCHANGED <<payment_history, next_pay_id>>
        /\ IF count_user_subscriptions(u) >= MAX_SUBSCRIPTIONS_PER_USER THEN
               /\ reply' = Reply("limit", 0)
               /\ UNCHANGED <<subscriptions, next_sub_id, user_data, conv>>
           ELSE IF \/ n < 3
                   \/ (~IsSome(last_dt) /\ ~IsSome(day_int))
                   \/ (~IsSome(last_dt) /\ ~(Get(day_int) >= 1 /\ Get(day_int) <= 31))
                   \/ name_parts = <<>>
                   \/ Len(name0) > MAX_NAME_LENGTH
                   \/ ~IsSome(parsed) THEN
               /\ reply' = Reply("usage", 0)
               /\ UNCHANGED <<subscriptions, next_sub_id, user_data, conv>>
           ELSE
               /\ IF IsSome(find_duplicate_subscription(u, name))
                  THEN DuplicateKeyboardRaises
                  ELSE /\ Inserted("added", u, name, pack_price(Get(parsed).amount, Get(parsed).currency),
                                   day, DEFAULT_PERIOD, last_charge_date, category)
                       /\ UNCHANGED <<user_data, conv>>

\* /cancel: the CommandHandler registered before the conversations takes the
\* update, so the keys are popped and the conversation state is not changed
cancel(u) ==
    /\ user_data' = [user_data EXCEPT ![u] =
                        [add_keys_popped(@) EXCEPT !.edit_id = None, !.edit_field = None]]
    /\ reply' = Reply("cancelled", 0)
    /\ UNCHANGED <<subscriptions, next_sub_id, payment_history, next_pay_id, conv>>

-----------------------------------------------------------------------------
(* MENU ROUTER and the duplicate decision                                  *)

\* text and parsed are the locals of the handler, each computed once
menu_router(u, text0) ==
    \E text \in {py_strip(text0)} :
    \E parsed \in {try_parse_quick_add(text)} :
    LET ud == user_data[u]
    IN  /\ conv[u] = "END"
        /\ UNCHANGED <<payment_history, next_pay_id, conv>>
        /\ IF IsSome(ud.edit_id) /\ IsSome(ud.edit_field) THEN
               LET sub_id == Get(ud.edit_id)
                   field == Get(ud.edit_field)
                   day_int == py_int(text)
                   price == parse_price(text)
                   rejected ==
                       \/ field = "day" /\ ~IsSome(day_int)
                       \/ field = "day" /\ ~(Get(day_int) >= 1 /\ Get(day_int) <= 31)
                       \/ field = "name" /\ (text = <<>> \/ Len(text) > MAX_NAME_LENGTH)
                       \/ field = "price" /\ ~IsSome(price)
                   value == IF field = "day" THEN Get(day_int)
                            ELSE IF field = "price"
                            THEN pack_price(Get(price).amount, Get(price).currency)
                            ELSE text
               IN  /\ UNCHANGED next_sub_id
                   /\ IF rejected
                      THEN /\ reply' = Reply("bad_value", 0)
                           /\ UNCHANGED <<subscriptions, user_data>>
                      ELSE /\ subscriptions' =
                                  update_subscription_field(subscriptions, u, sub_id, field, value)
                           /\ user_data' = [user_data EXCEPT ![u] =
                                               [@ EXCEPT !.edit_id = None, !.edit_field = None]]
                           /\ reply' = Reply("updated", sub_id)
           ELSE IF ~IsSome(parsed) THEN
               /\ reply' = Reply("hint", 0)
               /\ UNCHANGED <<subscriptions, next_sub_id, user_data>>
           ELSE IF count_user_subscriptions(u) >= MAX_SUBSCRIPTIONS_PER_USER THEN
               /\ reply' = Reply("limit", 0)
               /\ UNCHANGED <<subscriptions, next_sub_id, user_data>>
           ELSE
               LET q == Get(parsed) IN
               /\ IF IsSome(find_duplicate_subscription(u, q.name))
                  THEN DuplicateKeyboardRaises
                  ELSE /\ Inserted("added", u, q.name, pack_price(q.amount, q.currency), q.last_dt.day,
                                   DEFAULT_PERIOD, isoformat(q.last_dt), q.category)
                       /\ UNCHANGED user_data

duplicate_callback_cancel_deletes(u, data) ==
    /\ UNCHANGED <<payment_history, next_pay_id, user_data, conv, next_sub_id>>
    /\ IF data = KIND_TEXT["dup_cancel"]
       THEN /\ reply' = Reply("dup_cancelled", 0)
            /\ subscriptions' = {s \in subscriptions : s.user_id # u}
       ELSE /\ reply' = Reply("answered", 0)
            /\ UNCHANGED subscriptions

\* the definition of duplicate_callback in force (the later one of the two
\* in the file); it has no branch for dup_payment
duplicate_callback(u, data) ==
    /\ UNCHANGED <<payment_history, next_pay_id, user_data, conv>>
    /\ IF py_startswith(data, KIND_TEXT["dup_update"] \o <<":">>) THEN
           LET parts == py_split_max(data, ":", 2)
               existing_id == py_int(parts[2])
               data_parts == py_split_sep(parts[3], "|")
               last_date == data_parts[4]
               amount == py_float(data_parts[2])
               currency == data_parts[3]
               dated == update_subscription_field(subscriptions, u, Get(existing_id),
                                                  "last_charge_date", last_date)
           IN  /\ UNCHANGED next_sub_id
               /\ IF \/ Len(parts) < 3
                     \/ ~IsSome(existing_id)
                     \/ Len(data_parts) < 4
                     \/ last_date = <<>>
                  THEN /\ reply' = Reply("dup_update_error", 0)
                       /\ UNCHANGED subscriptions
                  ELSE IF ~IsSome(amount)
                  THEN /\ subscriptions' = dated
                       /\ reply' = Reply("dup_update_error", 0)
                  ELSE /\ subscriptions' =
                              update_subscription_field(dated, u, Get(existing_id), "price",
                                                        pack_price(Get(amount), currency))
                       /\ reply' = Reply("dup_updated", Get(existing_id))
       ELSE IF py_startswith(data, KIND_TEXT["dup_create"] \o <<":">>) THEN
           LET new_data == py_split_max(data, ":", 1)[2]
               data_parts == py_split_sep(new_data, "|")
               name == data_parts[1]
               amount == py_float(data_parts[2])
               currency == data_parts[3]
               last_date == data_parts[4]
               category == data_parts[5]
               from_date == fromisoformat(last_date)
               day == IF Len(data_parts) > 5 THEN py_int(data_parts[6])
                      ELSE IF IsSome(from_date) THEN Some(Get(from_date).day)
                      ELSE None
           IN  IF Len(data_parts) < 5 \/ ~IsSome(amount) \/ ~IsSome(day)
               THEN /\ reply' = Reply("dup_create_error", 0)
                    /\ UNCHANGED <<subscriptions, next_sub_id>>
               ELSE Inserted("dup_created", u, name, pack_price(Get(amount), currency), Get(day),
                             DEFAULT_PERIOD, IF last_date # <<>> THEN last_date ELSE None,
                             category)
       ELSE IF data = KIND_TEXT["dup_cancel"] THEN
           /\ reply' = Reply("dup_cancelled", 0)
           /\ UNCHANGED <<subscriptions, next_sub_id>>
       ELSE \* await query.answer() and nothing else
           /\ reply' = Reply("answered", 0)
           /\ UNCHANGED <<subscriptions, next_sub_id>>

-----------------------------------------------------------------------------
(* CALLBACKS addressed by a subscription id                                *)

\* the words of callback data and of the fields, as texts
WORD ==
    ("edit_select" :> <<"e", "d", "i", "t", "_", "s", "e", "l", "e", "c", "t">>)
    @@ ("edit_field" :> <<"e", "d", "i", "t", "_", "f", "i", "e", "l", "d">>)
    @@ ("edit_cancel" :> <<"e", "d", "i", "t", "_", "c", "a", "n", "c", "e", "l">>)
    @@ ("toggle_pause" :> <<"t", "o", "g", "g", "l", "e", "_", "p", "a", "u", "s", "e">>)
    @@ ("mark_paid" :> <<"m", "a", "r", "k", "_", "p", "a", "i", "d">>)
    @@ ("sub_history" :> <<"s", "u", "b", "_", "h", "i", "s", "t", "o", "r", "y">>)
    @@ ("delete_ask" :> <<"d", "e", "l", "e", "t", "e", "_", "a", "s", "k">>)
    @@ ("delete_confirm" :> <<"d", "e", "l", "e", "t", "e", "_", "c", "o", "n", "f", "i", "r", "m">>)
    @@ ("delete_cancel" :> <<"d", "e", "l", "e", "t", "e", "_", "c", "a", "n", "c", "e", "l">>)
    @@ ("period" :> <<"p", "e", "r", "i", "o", "d">>)
    @@ ("category" :> <<"c", "a", "t", "e", "g", "o", "r", "y">>)
    @@ ("price" :> <<"p", "r", "i", "c", "e">>)
    @@ ("name" :> <<"n", "a", "m", "e">>)
    @@ ("day" :> <<"d", "a", "y">>)
    @@ ("month" :> <<"m", "o", "n", "t", "h">>)
    @@ ("year" :> <<"y", "e", "a", "r">>)
    @@ ("music" :> <<"m", "u", "s", "i", "c">>)

\* the word a text spells, "?" for a text that spells none of them
word_of(text) ==
    IF \E w \in DOMAIN WORD : WORD[w] = text
    THEN CHOOSE w \in DOMAIN WORD : WORD[w] = text
    ELSE "?"

period_callback(u, data) ==
    LET parts == py_split_sep(data, ":")
        sub_id == py_int(parts[2])
    IN  /\ UNCHANGED <<next_sub_id, payment_history, next_pay_id, user_data, conv>>
        /\ IF Len(parts) # 3 \/ ~IsSome(sub_id)
           THEN /\ reply' = Reply("error", 0)
                /\ UNCHANGED subscriptions
           ELSE /\ subscriptions' =
                       update_subscription_field(subscriptions, u, Get(sub_id), "period",
                                                 word_of(parts[3]))
                /\ reply' = Reply("period_set", Get(sub_id))

category_callback(u, data) ==
    LET parts == py_split_sep(data, ":")
        sub_id == py_int(parts[2])
    IN  /\ UNCHANGED <<next_sub_id, payment_history, next_pay_id, user_data, conv>>
        /\ IF Len(parts) # 3 \/ ~IsSome(sub_id)
           THEN /\ reply' = Reply("error", 0)
                /\ UNCHANGED subscriptions
           ELSE /\ subscriptions' =
                       update_subscription_field(subscriptions, u, Get(sub_id), "category",
                                                 parts[3])
                /\ reply' = Reply("category_set", Get(sub_id))

delete_callback(u, data) ==
    LET is(w) == py_startswith(data, WORD[w] \o <<":">>)
        kind == word_of(py_split_sep(data, ":")[1])
        \* int(data.split(":")[1]): Some(n), or None for ValueError and IndexError
        sub_id == IF Len(py_split_sep(data, ":")) < 2 THEN None
                  ELSE py_int(py_split_sep(data, ":")[2])
        sub == get_subscription_by_id(u, Get(sub_id))
    IN  /\ UNCHANGED <<next_sub_id, payment_history, next_pay_id, user_data, conv>>
        /\ IF ~is("delete_ask") /\ ~is("delete_confirm") THEN
               /\ reply' = IF is("delete_cancel") THEN Reply("delete_cancelled", 0)
                           ELSE Reply("answered", 0)
               /\ UNCHANGED subscriptions
           ELSE IF ~IsSome(sub_id) THEN
               /\ reply' = Reply("error", 0)
               /\ UNCHANGED subscriptions
           ELSE IF ~IsSome(sub) THEN
               /\ reply' = Reply("not_found", Get(sub_id))
               /\ UNCHANGED subscriptions
           ELSE IF kind = "delete_ask" THEN
               /\ reply' = Reply("delete_ask", Get(sub_id))
               /\ UNCHANGED subscriptions
           ELSE
               /\ subscriptions' = delete_subscription(u, Get(sub_id))
               /\ reply' = Reply("deleted", Get(sub_id))

\* today is date.today() of the mark_paid branch
edit_callback(u, data, today) ==
    LET parts == py_split_sep(data, ":")
        kind == word_of(parts[1])
        \* int(data.split(":")[1]): Some(n), or None for ValueError and IndexError
        sub_id == IF Len(py_split_sep(data, ":")) < 2 THEN None
                  ELSE py_int(py_split_sep(data, ":")[2])
        sub == get_subscription_by_id(u, Get(sub_id))
    IN  /\ UNCHANGED <<next_sub_id, conv>>
        /\ IF data = WORD["edit_cancel"] THEN
               /\ user_data' = [user_data EXCEPT ![u] =
                                   [@ EXCEPT !.edit_id = None, !.edit_field = None]]
               /\ reply' = Reply("closed", 0)
               /\ UNCHANGED <<subscriptions, payment_history, next_pay_id>>
           ELSE IF kind \notin {"edit_select", "edit_field", "toggle_pause", "mark_paid",
                                "sub_history"} \/ Len(parts) = 1 THEN
               /\ reply' = Reply("answered", 0)
               /\ UNCHANGED <<subscriptions, payment_history, next_pay_id, user_data>>
           ELSE IF ~IsSome(sub_id) \/ (kind = "edit_field" /\ Len(parts) < 3) THEN
               /\ reply' = Reply("error", 0)
               /\ UNCHANGED <<subscriptions, payment_history, next_pay_id, user_data>>
           ELSE IF kind = "edit_field" THEN
               /\ UNCHANGED <<subscriptions, payment_history, next_pay_id>>
               /\ IF word_of(parts[3]) \in {"period", "category"}
                  THEN /\ reply' = Reply("pick", Get(sub_id))
                       /\ UNCHANGED user_data
                  ELSE /\ user_data' = [user_data EXCEPT ![u] =
                                           [@ EXCEPT !.edit_id = sub_id,
                                                     !.edit_field = Some(word_of(parts[3]))]]
                       /\ reply' = Reply("ask_value", Get(sub_id))
           ELSE IF kind = "toggle_pause" THEN
               /\ UNCHANGED <<payment_history, next_pay_id, user_data>>
               /\ subscriptions' = toggle_pause_subscription(u, Get(sub_id))
               /\ reply' = IF IsSome(sub) THEN Reply("pause_toggled", Get(sub_id))
                           ELSE Reply("error", 0)
           ELSE IF ~IsSome(sub) THEN
               /\ reply' = Reply("not_found", Get(sub_id))
               /\ UNCHANGED <<subscriptions, payment_history, next_pay_id, user_data>>
           ELSE IF kind = "mark_paid" THEN
               /\ payment_history' = add_payment(u, Get(sub_id), Get(sub).price, isoformat(today))
               /\ next_pay_id' = next_pay_id + 1
               /\ subscriptions' =
                      update_subscription_field(subscriptions, u, Get(sub_id),
                                                "last_charge_date", isoformat(today))
               /\ reply' = [kind |-> "paid", id |-> Get(sub_id), paid |-> today,
                             next_date |-> IF Get(sub).period = "year"
                                           THEN add_years(today, 1)
                                           ELSE add_months(today, 1)]
               /\ UNCHANGED user_data
           ELSE \* edit_select, sub_history: the row is shown
               /\ reply' = Reply("shown", Get(sub_id))
               /\ UNCHANGED <<subscriptions, payment_history, next_pay_id, user_data>>

-----------------------------------------------------------------------------
(* The bot: one update handled per step                                    *)

\* "+ add" button: entry point of the add conversation, re-entry allowed
AddFlowStart ==
    /\ \E u \in {1} : add_flow_start(u)
    /\ UNCHANGED <<recurVars, textVars>>

\* a text message while the add conversation of the user is in a state
AddFlowName ==
    /\ \E u \in Users, text \in BotTexts :
           add_flow_name(u, text)
    /\ UNCHANGED <<recurVars, textVars>>

AddFlowPrice ==
    /\ \E u \in Users, text \in BotTexts : add_flow_price(u, text)
    /\ UNCHANGED <<recurVars, textVars>>

AddFlowDate ==
    /\ \E u \in Users, text \in BotTexts : add_flow_date(u, text)
    /\ UNCHANGED <<recurVars, textVars>>

\* /add <args>
AddCmd ==
    /\ \E u \in Users, args \in AddCmdArgs : add_cmd(u, args)
    /\ UNCHANGED <<recurVars, textVars>>

\* /cancel
Cancel ==
    /\ \E u \in Users : cancel(u)
    /\ UNCHANGED <<recurVars, textVars>>

\* a text message outside the conversations
MenuRouter ==
    /\ \E u \in Users, text \in BotTexts : menu_router(u, text)
    /\ UNCHANGED <<recurVars, textVars>>

\* a press on a button of a duplicate keyboard: the data of the button
\* comes back from the client
DuplicateCallback ==
    /\ \E u \in Users, kind \in DupKinds, existing_id \in 1..MaxSubs, cand \in Candidates :
           duplicate_callback(u, callback_data(kind, existing_id, cand))
    /\ UNCHANGED <<recurVars, textVars>>

Init ==
    /\ RecurIdle
    /\ TextIdle
    /\ BotInit

Next ==
    \/ AddFlowStart
    \/ AddFlowName
    \/ AddFlowPrice
    \/ AddFlowDate
    \/ AddCmd
    \/ Cancel
    \/ MenuRouter
    \/ DuplicateCallback

Spec == Init /\ [][Next]_vars

\* the bot of a user who is one subscription below the limit
InitCap ==
    /\ RecurIdle
    /\ TextIdle
    /\ subscriptions = Stock
    /\ next_sub_id = MaxSubs + MAX_SUBSCRIPTIONS_PER_USER
    /\ payment_history = {}
    /\ next_pay_id = 1
    /\ user_data =
           [u \in Users |->
                [add_name |-> None, add_amount |-> None, add_currency |-> None,
                 add_category |-> None, add_duplicate |-> None,
                 add_suggested_period |-> None, edit_id |-> None, edit_field |-> None]]
    /\ conv = [u \in Users |-> "END"]
    /\ reply = Reply("none", 0)

SpecCap == InitCap /\ [][Next]_vars

-----------------------------------------------------------------------------
(* The bot with the operations on stored subscriptions                     *)

MaxPays == 1            \* rows of the table payment_history

\* a quick-add line in the main menu
QuickAddManage ==
    /\ next_sub_id <= MaxSubs
    /\ \E u \in {1} : menu_router(u, TEXT_QUICK)
    /\ UNCHANGED <<recurVars, textVars>>

\* the text sent after the price button: a price below half a hundredth
InlineEditManage ==
    /\ \E u \in Users : menu_router(u, <<"0", ".", "0", "0", "4">>)
    /\ UNCHANGED <<recurVars, textVars>>

\* the buttons under a subscription (pause, paid, price), pressed on the
\* last day of January
EditCallback ==
    /\ next_pay_id <= MaxPays
    /\ \E u \in Users, id \in 1..MaxSubs,
             w \in {<<"toggle_pause">>, <<"mark_paid">>, <<"edit_field", "price">>} :
           edit_callback(u,
                         WORD[w[1]] \o <<":">> \o int_str(id)
                             \o (IF Len(w) = 2 THEN <<":">> \o WORD[w[2]] ELSE <<>>),
                         date(2026, 1, 31))
    /\ UNCHANGED <<recurVars, textVars>>

PeriodCallback ==
    /\ \E u \in Users, id \in 1..MaxSubs :
           period_callback(u, WORD["period"] \o <<":">> \o int_str(id) \o <<":">> \o WORD["year"])
    /\ UNCHANGED <<recurVars, textVars>>

CategoryCallback ==
    /\ \E u \in Users, id \in 1..MaxSubs :
           category_callback(u, WORD["category"] \o <<":">> \o int_str(id) \o <<":">> \o WORD["music"])
    /\ UNCHANGED <<recurVars, textVars>>

DeleteCallback ==
    /\ \E u \in Users, id \in 1..MaxSubs :
           delete_callback(u, WORD["delete_confirm"] \o <<":">> \o int_str(id))
    /\ UNCHANGED <<recurVars, textVars>>

\* the decisions that address a stored row
DecisionManage ==
    /\ \E u \in Users, kind \in {"dup_payment", "dup_update"}, id \in 1..MaxSubs,
             cand \in Candidates :
           duplicate_callback(u, callback_data(kind, id, cand))
    /\ UNCHANGED <<recurVars, textVars>>

NextManage ==
    \/ QuickAddManage
    \/ InlineEditManage
    \/ EditCallback
    \/ PeriodCallback
    \/ CategoryCallback
    \/ DeleteCallback
    \/ DecisionManage

SpecManage == Init /\ [][NextManage]_vars

-----------------------------------------------------------------------------
(* The bot with a subscription name that holds the separator of new_data   *)

NAME_PIPED == <<"G", "|", "m">>
TEXT_PIPED == <<"G", "|", "m", " ", "1", "2", "9", " ", "k", "r", " ",
                "1", "5", ".", "0", "1", ".", "2", "6">>

\* the candidates the add operations write for the name G|m
PipedCandidates ==
    {quick_candidate(Get(try_parse_quick_add(TEXT_PIPED))),
     Candidate(NAME_PIPED, 99000, <<"N", "O", "K">>, <<>>, CATEGORY_OTHER, Some(15))}

\* the quick-add line "G|m 129 kr 15.01.26" in the main menu
MenuRouterPiped ==
    /\ \E u \in Users : menu_router(u, TEXT_PIPED)
    /\ UNCHANGED <<recurVars, textVars>>

\* /add G|m 99 15
AddCmdPiped ==
    /\ \E u \in Users : add_cmd(u, <<NAME_PIPED, <<"9", "9">>, <<"1", "5">>>>)
    /\ UNCHANGED <<recurVars, textVars>>

DuplicateCallbackPiped ==
    /\ \E u \in Users, kind \in DupKinds, existing_id \in 1..MaxSubs,
             cand \in PipedCandidates :
           duplicate_callback(u, callback_data(kind, existing_id, cand))
    /\ UNCHANGED <<recurVars, textVars>>

NextPiped ==
    \/ MenuRouterPiped
    \/ AddCmdPiped
    \/ DuplicateCallbackPiped

SpecPiped == Init /\ [][NextPiped]_vars


-----------------------------------------------------------------------------
(* Properties of the recurrence calculator                                 *)

next_day(d) ==
    IF d.day < days_in_month(d.year, d.month) THEN date(d.year, d.month, d.day + 1)
    ELSE IF d.month < 12 THEN date(d.year, d.month + 1, 1)
    ELSE date(d.year + 1, 1, 1)

RECURSIVE plus_days(_, _)
plus_days(d, n) == IF n = 0 THEN d ELSE plus_days(next_day(d), n - 1)

\* one period later, as the specification defines it
one_period_later(d, period) ==
    CASE period = "month" -> add_months(d, 1)
      [] period = "year"  -> add_years(d, 1)
      [] period = "week"  -> plus_days(d, 7)

\* C1: for last <= today the date returned by next_from_last is strictly
\* after today (also when last = today or a candidate lands on today).
C1_StrictlyAfterToday ==
    (nfl_pc = "done" /\ DateLE(nfl_last, nfl_today)) => DateLT(nfl_today, candidate)

\* C5: every loop iteration advances the candidate by one period:
\* add_months(., 1) for month, add_years(., 1) for year, 7 days for week.
C5_AdvanceByPeriod ==
    [][(nfl_pc = "loop" /\ nfl_pc' = "loop")
          => candidate' = one_period_later(candidate, nfl_period)]_vars

\* C6: with r the result of next_from_last, next_from_last(r, p, r) is r
\* advanced by exactly one period (month or year), not r itself.
C6_ReapplyOnePeriod ==
    (nfl_pc = "done" /\ nfl_period \in {"month", "year"})
        => next_from_last(candidate, nfl_period, candidate)
               = one_period_later(candidate, nfl_period)

\* C10: next_from_last terminates: a call that entered the loop returns.
C10_Terminates == (nfl_pc = "loop") ~> (nfl_pc = "done")

\* the loop ran at least once and the call returned
C10_Witness == nfl_pc = "done" /\ DateLT(nfl_last, candidate)

-----------------------------------------------------------------------------
(* Properties of the text helpers                                          *)

\* a token that parse_price accepts as an amount on its own
IsValidAmount(tok) == IsSome(parse_price(tok))

\* C3: quick add does not depend on the order of price and currency:
\* '<name> <currency> <amount> <date>' gives the same candidate as
\* '<name> <amount> <currency> <date>'.
C3_OrderIndependent ==
    (fn_pc = "done" /\ fn_op = "try_parse_quick_add") =>
        LET parts == py_split(fn_arg)
        IN  (/\ Len(parts) = 4
             /\ is_currency_token(parts[2])
             /\ IsValidAmount(parts[3])
             /\ IsSome(parse_ru_date(parts[4])))
            => fn_res = try_parse_quick_add(
                            py_join(<<" ">>, <<parts[1], parts[3], parts[2], parts[4]>>))

\* C4: parse_price accepts 'amount currency' and 'currency amount' alike and
\* returns the amount of the non-currency token with the named currency.
C4_EitherOrder ==
    (fn_pc = "done" /\ fn_op = "parse_price") =>
        LET parts == py_split(fn_arg)
        IN  /\ (Len(parts) = 2 /\ IsValidAmount(parts[1]) /\ is_currency_token(parts[2]))
                => fn_res = Some(Price(Get(parse_price(parts[1])).amount,
                                       normalize_currency_token(parts[2])))
            /\ (Len(parts) = 2 /\ is_currency_token(parts[1]) /\ IsValidAmount(parts[2]))
                => fn_res = Some(Price(Get(parse_price(parts[2])).amount,
                                       normalize_currency_token(parts[1])))

\* the nearest hundredth, in thousandths
nearest_hundredth(a) == ((a + 5) \div 10) * 10

\* C9: unpack_price(pack_price(amount, currency)) succeeds and returns the
\* amount rounded to 2 decimals and the same currency.
C9_RoundTrip ==
    (fn_pc = "done" /\ fn_op = "pack_unpack") =>
        fn_res = Some(Price(nearest_hundredth(fn_arg.amount), fn_arg.currency))

\* the round trip of MAX_PRICE in a currency other than the default
C9_Witness ==
    /\ fn_pc = "done" /\ fn_op = "pack_unpack"
    /\ fn_arg = Price(MAX_PRICE * 1000, <<"S", "E", "K">>)
    /\ IsSome(fn_res)

-----------------------------------------------------------------------------
(* The duplicate decision                                                  *)

\* the row of a table with the given id
row(subs, id) == CHOOSE s \in subs : s.id = id

\* the user u has been asked about candidate cand colliding with row id
AwaitingDecision(u, id, cand) ==
    LET d == find_duplicate_subscription(u, cand.name)
    IN  IsSome(d) /\ Get(d).id = id

\* the user u has a subscription of this name, letter case ignored
SameName(u, name) ==
    \E s \in subscriptions : s.user_id = u /\ py_lower(s.name) = py_lower(name)

\* the add operation stored nothing and offered the four choices
Parked ==
    /\ subscriptions' = subscriptions
    /\ reply'.kind = "duplicate_choice"

\* C2: from AwaitingDecision, the RecordPayment choice (dup_payment:<id>:<candidate>)
\* appends exactly one payment-history row for the existing subscription with
\* the candidate's price and charge date, and sets the subscription's stored
\* price and last-charge date to the candidate's values, keeping its id.
C2_RecordPayment ==
    [][\A u \in Users, id \in 1..MaxSubs, cand \in Candidates :
          (/\ cand.last_date # <<>>
           /\ AwaitingDecision(u, id, cand)
           /\ duplicate_callback(u, callback_data("dup_payment", id, cand)))
          => /\ \E p \in payment_history' :
                    /\ payment_history' = payment_history \cup {p}
                    /\ p \notin payment_history
                    /\ p.subscription_id = id
                    /\ p.amount = pack_price(cand.amount, cand.currency)
                    /\ p.paid_at = cand.last_date
             /\ \E s \in subscriptions' :
                    /\ s.id = id
                    /\ s.price = pack_price(cand.amount, cand.currency)
                    /\ s.last_charge_date = cand.last_date]_vars

\* C7: an add operation (quick add in menu_router or add_flow_name, /add, the
\* guided flow at its date step) whose candidate has the name, letter case
\* ignored, of a subscription of the same user inserts nothing and offers the
\* choices; a same-named subscription of another user alone does not do so.
C7_DuplicateParks ==
    [][\A u \in Users :
          /\ \A text \in BotTexts :
                 LET q == try_parse_quick_add(py_strip(text))
                 IN  (IsSome(q) /\ (menu_router(u, text) \/ add_flow_name(u, text)))
                     => IF SameName(u, Get(q).name) THEN Parked
                        ELSE reply'.kind # "duplicate_choice"
          /\ \A args \in AddCmdArgs :
                 add_cmd(u, args)
                 => IF SameName(u, args[1]) THEN Parked
                    ELSE reply'.kind # "duplicate_choice"
          /\ \A text \in BotTexts :
                 (/\ IsSome(user_data[u].add_name)
                  /\ IsSome(user_data[u].add_amount)
                  /\ IsSome(parse_ru_date(py_strip(text)))
                  /\ add_flow_date(u, text))
                 => IF SameName(u, Get(user_data[u].add_name)) THEN Parked
                    ELSE reply'.kind # "duplicate_choice"]_vars

\* C8: from AwaitingDecision, the UpdateExisting choice (dup_update:<id>:<candidate>)
\* sets the subscription's stored price, and its last-charge date when the
\* candidate has one, to the candidate's values; the payment history and the
\* subscription's id, name, period, category and pause flag are unchanged.
C8_UpdateExisting ==
    [][\A u \in Users, id \in 1..MaxSubs, cand \in Candidates :
          (/\ AwaitingDecision(u, id, cand)
           /\ duplicate_callback(u, callback_data("dup_update", id, cand)))
          => /\ payment_history' = payment_history
             /\ \E s \in subscriptions' :
                    /\ s.id = id
                    /\ s.price = pack_price(cand.amount, cand.currency)
                    /\ cand.last_date # <<>> => s.last_charge_date = cand.last_date
                    /\ s.name = row(subscriptions, id).name
                    /\ s.period = row(subscriptions, id).period
                    /\ s.category = row(subscriptions, id).category
                    /\ s.is_paused = row(subscriptions, id).is_paused]_vars

-----------------------------------------------------------------------------
(* The calendar helpers                                                    *)

\* months since year 0 of the month a date lies in
month_index(dt) == dt.year * 12 + (dt.month - 1)

\* C11: add_months(d, n) with n >= 0 lands in the month that is n months
\* after the month of d, the year growing by one at each wrap from December
\* to January, on the day min(d.day, days of the target month); it never
\* rolls over into the month after the target.
C11_AddMonths ==
    (fn_op = "add_months" /\ fn_pc = "done") =>
        /\ fn_res.month \in 1..12
        /\ month_index(fn_res) = month_index(fn_arg.d) + fn_arg.months
        /\ fn_res.day = Min(fn_arg.d.day, days_in_month(fn_res.year, fn_res.month))
        /\ (fn_arg.d = date(2024, 1, 31) /\ fn_arg.months = 1) => fn_res = date(2024, 2, 29)
        /\ (fn_arg.d = date(2023, 1, 31) /\ fn_arg.months = 1) => fn_res = date(2023, 2, 28)

\* January 31 plus one month in a leap year, and a call that wraps the year
C11_Witness ==
    /\ fn_op = "add_months" /\ fn_pc = "done"
    /\ fn_arg.d = date(2024, 1, 31)
    /\ fn_arg.months \in {1, 13}
    /\ fn_res.month = 2 /\ fn_res.day < 31

\* C12: next_by_day(day_of_month, today) is the clamped day in the month of
\* today when that date is not before today, and the clamped day in the
\* following month otherwise (January of the next year after December); the
\* result is never before today and is today when the clamped day is today.
C12_NextByDay ==
    (fn_op = "next_by_day" /\ fn_pc = "done") =>
        LET today == fn_arg.today
            wanted == fn_arg.day_of_month
            this_day == Min(wanted, days_in_month(today.year, today.month))
        IN  /\ DateLE(today, fn_res)
            /\ fn_res.month \in 1..12
            /\ fn_res.day = Min(wanted, days_in_month(fn_res.year, fn_res.month))
            /\ IF this_day >= today.day
               THEN month_index(fn_res) = month_index(today)
               ELSE month_index(fn_res) = month_index(today) + 1
            /\ (this_day = today.day) => fn_res = today

\* the clamped day is today: the 31st asked for on the last day of February
C12_Witness ==
    /\ fn_op = "next_by_day" /\ fn_pc = "done"
    /\ fn_arg.day_of_month = 31
    /\ fn_arg.today = date(2024, 2, 29)
    /\ fn_res = fn_arg.today

\* C13: add_years(d, n) keeps the month and the day n years later, except
\* that February 29 becomes February 28 when the target year is not a leap
\* year; the result is always a date of the calendar and never in March.
C13_AddYears ==
    (fn_op = "add_years" /\ fn_pc = "done") =>
        LET d == fn_arg.d
        IN  /\ fn_res.year = d.year + fn_arg.years
            /\ fn_res.month = d.month
            /\ fn_res.day = IF d.month = 2 /\ d.day = 29 /\ ~IsLeap(fn_res.year)
                            THEN 28 ELSE d.day
            /\ fn_res.day \in 1..days_in_month(fn_res.year, fn_res.month)

\* February 29 moved to a year that is not a leap year
C13_Witness ==
    /\ fn_op = "add_years" /\ fn_pc = "done"
    /\ fn_arg.d = date(2024, 2, 29)
    /\ fn_arg.years = 1
    /\ fn_res = date(2025, 2, 28)

-----------------------------------------------------------------------------
(* The price and currency helpers                                          *)

\* a decimal number: an optional sign, digits, at most one decimal point
IsDecimalText(tok) ==
    LET body == IF tok # <<>> /\ Head(tok) \in {"+", "-"} THEN Tail(tok) ELSE tok
    IN  /\ \A i \in 1..Len(body) : body[i] \in DIGITS \cup {"."}
        /\ Cardinality({i \in 1..Len(body) : body[i] = "."}) <= 1
        /\ \E i \in 1..Len(body) : body[i] \in DIGITS

\* the input of parse_price is one the claim C14 lists as rejected
IsRejectedPrice(input_str) ==
    LET parts == py_split(input_str)
    IN  IF Len(parts) = 0 \/ Len(parts) > 2 THEN TRUE
        ELSE IF Len(parts) = 2 /\ ~is_currency_token(parts[2]) THEN TRUE
        ELSE LET amount_tok == py_replace(parts[1], ",", <<".">>)
             IN  IF ~IsDecimalText(amount_tok) THEN TRUE
                 ELSE \/ Get(py_float(amount_tok)) <= 0
                      \/ Get(py_float(amount_tok)) > MAX_PRICE * 1000

\* C14: parse_price returns nothing, without raising, for an empty input,
\* for more than two tokens, for an unrecognized currency, for an amount that
\* is not a number and for an amount <= 0 or > MAX_PRICE; an input that is
\* one valid amount yields that amount in the default currency NOK, and
\* MAX_PRICE itself is accepted.
C14_ParsePriceRejects ==
    (fn_op = "parse_price" /\ fn_pc = "done") =>
        /\ IsRejectedPrice(fn_arg) => fn_res = None
        /\ (~IsRejectedPrice(fn_arg) /\ Len(py_split(fn_arg)) = 1) =>
               /\ IsSome(fn_res)
               /\ Get(fn_res).currency = <<"N", "O", "K">>
               /\ Get(fn_res).amount = Get(py_float(py_replace(fn_arg, ",", <<".">>)))
        /\ (fn_arg = <<"1", "0", "0", "0", "0", "0", "0">>) =>
               fn_res = Some(Price(MAX_PRICE * 1000, <<"N", "O", "K">>))

\* two texts that differ in letter case only
SameIgnoringCase(a, b) ==
    /\ Len(a) = Len(b)
    /\ \A i \in 1..Len(a) :
           \/ a[i] = b[i]
           \/ a[i] \in DOMAIN LOWER_OF /\ LOWER_OF[a[i]] = b[i]
           \/ b[i] \in DOMAIN LOWER_OF /\ LOWER_OF[b[i]] = a[i]

\* the token is, ignoring letter case, a supported code or an alias key
IsKnownCurrencyToken(tok) ==
    \/ \E c \in SUPPORTED_CURRENCIES : SameIgnoringCase(tok, c)
    \/ \E k \in DOMAIN CURRENCY_ALIASES : SameIgnoringCase(tok, k)

\* the currency a known token stands for
CurrencyOf(tok) ==
    CHOOSE c \in SUPPORTED_CURRENCIES :
        \/ SameIgnoringCase(tok, c)
        \/ \E k \in DOMAIN CURRENCY_ALIASES :
               SameIgnoringCase(tok, k) /\ CURRENCY_ALIASES[k] = c

\* C15 (as stated): a token maps to a supported currency exactly when,
\* ignoring letter case, it is one of the seven codes or an alias key; for
\* every other token the normalization yields nothing; is_currency_token is
\* true exactly when the normalization succeeds.
C15_NothingForUnknown ==
    (fn_op = "normalize_currency_token" /\ fn_pc = "done") =>
        /\ IsKnownCurrencyToken(fn_arg) => fn_res.normalized = CurrencyOf(fn_arg)
        /\ ~IsKnownCurrencyToken(fn_arg) => fn_res.normalized = None
        /\ fn_res.is_currency <=> IsKnownCurrencyToken(fn_arg)

\* C15 (amended): a token maps to a supported currency exactly when,
\* ignoring letter case, it is one of the seven codes or an alias key; for
\* every other token the normalization yields the token in upper case, which
\* is no supported currency; is_currency_token is true exactly when the
\* normalized text is a supported currency.
C15_UpperForUnknown ==
    (fn_op = "normalize_currency_token" /\ fn_pc = "done") =>
        /\ IsKnownCurrencyToken(fn_arg) => fn_res.normalized = CurrencyOf(fn_arg)
        /\ ~IsKnownCurrencyToken(fn_arg) =>
               /\ fn_res.normalized \notin SUPPORTED_CURRENCIES
               /\ fn_res.normalized = py_upper(fn_arg)
        /\ fn_res.is_currency <=> IsKnownCurrencyToken(fn_arg)
        /\ fn_res.is_currency <=> (fn_res.normalized \in SUPPORTED_CURRENCIES)

\* a token that is no currency was normalized to its upper case
C15_Witness ==
    /\ fn_op = "normalize_currency_token" /\ fn_pc = "done"
    /\ fn_arg = <<"x", "y", "z">>
    /\ fn_res.normalized = <<"X", "Y", "Z">>
    /\ ~fn_res.is_currency

\* a stored text that is an amount token followed by a supported-currency
\* token
IsStoredPrice(text) ==
    LET parts == py_split(text)
    IN  /\ Len(parts) = 2
        /\ IsDecimalText(parts[1])
        /\ is_currency_token(parts[2])

\* C16: unpack_price fails closed: for every stored text that is not an
\* amount token followed by a supported-currency token it returns nothing;
\* every reader of stored prices treats such a value as absent, not as
\* zero: it adds nothing to the sums of sum and of the statistics and is
\* shown as stored by list, next and the reminders; only the export
\* substitutes a zero default.
C16_FailsClosed ==
    (fn_op = "read_price" /\ fn_pc = "done" /\ ~IsStoredPrice(fn_arg)) =>
        /\ fn_res.unpacked = None
        /\ fn_res.sum_term = None
        /\ fn_res.monthly_term = None
        /\ fn_res.price_view = fn_arg
        /\ fn_res.export_price = Price(0, <<"N", "O", "K">>)
        /\ fn_res.by_subscription = None

-----------------------------------------------------------------------------
(* The quick-add line                                                      *)

\* C17: try_parse_quick_add returns nothing, and never raises, when the
\* line has fewer than three tokens or when its last token is not a date
\* the date parser accepts; a line without a trailing date is never turned
\* into a candidate by falling back to a day of the month.
C17_NoDateNoCandidate ==
    (fn_op = "try_parse_quick_add" /\ fn_pc = "done") =>
        LET parts == py_split(fn_arg)
        IN  (Len(parts) < 3 \/ ~IsSome(parse_ru_date(parts[Len(parts)]))) =>
                fn_res = None

\* a name, an amount and a currency without a date were refused
C17_Witness ==
    /\ fn_op = "try_parse_quick_add" /\ fn_pc = "done"
    /\ fn_arg = <<"G", "y", "m", " ", "1", "2", "9", " ", "k", "r">>
    /\ fn_res = None

\* the largest index of a set of indices
Rightmost(S) == CHOOSE i \in S : \A j \in S : j <= i

\* the tokens of parts at the indices of S, in their order
TokensAt(parts, S) ==
    LET idxs == SelectSeq([i \in 1..Len(parts) |-> i], LAMBDA i : i \in S)
    IN  [k \in 1..Len(idxs) |-> parts[idxs[k]]]

\* C18: among the tokens before the date the first numeric token from the
\* right is the amount, the first currency token from the right is the
\* currency (NOK when there is none), and every other token stays in the
\* name in its original order: a second number, a second currency token and
\* ordinary words to the right of the amount included.
C18_RightToLeftScan ==
    (fn_op = "try_parse_quick_add" /\ fn_pc = "done") =>
        LET parts == py_split(fn_arg)
            n == Len(parts)
            nums == {i \in 1..(n - 1) : IsDecimalText(py_replace(parts[i], ",", <<".">>))}
            curs == {i \in 1..(n - 1) : is_currency_token(parts[i])}
            ai == Rightmost(nums)
            taken == {ai} \cup (IF curs = {} THEN {} ELSE {Rightmost(curs)})
            name == py_join(<<" ">>, TokensAt(parts, (1..(n - 1)) \ taken))
        IN  (/\ n >= 3
             /\ IsSome(parse_ru_date(parts[n]))
             /\ nums # {}
             /\ IsValidAmount(parts[ai])
             /\ (1..(n - 1)) \ taken # {})
            => /\ IsSome(fn_res)
               /\ Get(fn_res).amount = Get(parse_price(parts[ai])).amount
               /\ Get(fn_res).currency =
                      (IF curs = {} THEN <<"N", "O", "K">>
                       ELSE normalize_currency_token(parts[Rightmost(curs)]))
               /\ Get(fn_res).last_dt = Get(parse_ru_date(parts[n]))
               /\ (py_lower(name) \notin DOMAIN KNOWN_SERVICES) => Get(fn_res).name = name

-----------------------------------------------------------------------------
(* The duplicate decision                                                  *)

\* C19: from AwaitingDecision, the CreateNew choice (dup_create:<candidate>)
\* inserts exactly one new subscription with a fresh id that holds the
\* candidate's name, price, charge date and category, and leaves the
\* colliding subscription and every payment-history row unchanged.
C19_CreateNew ==
    [][\A u \in Users, id \in 1..MaxSubs, cand \in Candidates \cup PipedCandidates :
          (/\ AwaitingDecision(u, id, cand)
           /\ duplicate_callback(u, callback_data("dup_create", id, cand)))
          => /\ payment_history' = payment_history
             /\ \E s \in subscriptions' :
                    /\ s.id \notin {r.id : r \in subscriptions}
                    /\ subscriptions' = subscriptions \cup {s}
                    /\ s.user_id = u
                    /\ s.name = cand.name
                    /\ s.price = pack_price(cand.amount, cand.currency)
                    /\ s.last_charge_date = cand.last_date
                    /\ s.category = cand.category]_vars

\* C20: from AwaitingDecision, the Cancel choice (dup_cancel) discards the
\* candidate and mutates nothing: the subscriptions and the payment history
\* are unchanged, and so is everything else the bot keeps for the user (the
\* handler reads and writes no settings).
C20_CancelMutatesNothing ==
    [][\A u \in Users :
          (/\ \E id \in 1..MaxSubs, cand \in Candidates : AwaitingDecision(u, id, cand)
           /\ duplicate_callback(u, callback_data("dup_cancel", 0, <<>>)))
          => /\ subscriptions' = subscriptions
             /\ next_sub_id' = next_sub_id
             /\ payment_history' = payment_history
             /\ next_pay_id' = next_pay_id
             /\ user_data' = user_data
             /\ conv' = conv
             /\ reply'.kind = "dup_cancelled"]_vars

\* the Cancel choice was taken while a subscription of the candidate name is stored
C20_Witness ==
    /\ reply.kind = "dup_cancelled"
    /\ \E u \in Users, cand \in Candidates : SameName(u, cand.name)

-----------------------------------------------------------------------------
(* The next charge date of a stored subscription                           *)

\* days on which the next charge date is asked for
AskDays == {date(2026, 1, 15), date(2026, 1, 20), date(2026, 2, 20)}

\* C21: after a RecordPayment decision (dup_payment:<id>:<candidate>) whose
\* candidate has the charge date c, on an existing subscription with period
\* p, the next charge date next_cmd and send_reminders compute for the
\* subscription on a day today equals next_from_last(c, p, today).
C21_NextChargeAfterPayment ==
    [][\A u \in Users, id \in 1..MaxSubs, cand \in Candidates, today \in AskDays :
          (/\ cand.last_date # <<>>
           /\ AwaitingDecision(u, id, cand)
           /\ duplicate_callback(u, callback_data("dup_payment", id, cand)))
          => \E s \in subscriptions' :
                 /\ s.id = id
                 /\ next_charge(s, today) =
                        next_from_last(Get(fromisoformat(cand.last_date)),
                                       row(subscriptions, id).period, today)]_vars

-----------------------------------------------------------------------------
(* One decision per candidate                                              *)

\* the update handled last was a decision of user u that applied the
\* candidate on a collision: the row the answer names holds the candidate's
\* price and date; after CreateNew the colliding row is an older one, after
\* UpdateExisting it is the row itself
Applied(u, cand) ==
    /\ reply.kind \in {"dup_created", "dup_updated"}
    /\ \E s, t \in subscriptions :
           /\ s.id = reply.id
           /\ s.user_id = u
           /\ s.price = pack_price(cand.amount, cand.currency)
           /\ s.last_charge_date = cand.last_date
           /\ t.user_id = u
           /\ sql_lower(t.name) = sql_lower(cand.name)
           /\ IF reply.kind = "dup_created" THEN t.id < s.id ELSE t = s

\* C22: a parked candidate is consumed at most once: once a decision has
\* been applied for a candidate, a decision callback for that candidate (the
\* same or another of the four) delivered again causes no further insert,
\* update or payment-history append.
C22_ConsumedOnce ==
    [][\A u \in Users, kind \in DupKinds, id \in 1..MaxSubs, cand \in Candidates :
          (/\ Applied(u, cand)
           /\ duplicate_callback(u, callback_data(kind, id, cand)))
          => /\ subscriptions' = subscriptions
             /\ payment_history' = payment_history]_vars

-----------------------------------------------------------------------------
(* Stored prices                                                           *)

\* a stored price text reads back as an amount in (0, MAX_PRICE] with a
\* supported currency
StoredInRange(price_text) ==
    LET p == unpack_price(price_text)
    IN  /\ IsSome(p)
        /\ float_gt(Get(p).amount, 0)
        /\ float_le(Get(p).amount, MAX_PRICE * 1000)
        /\ Get(p).currency \in SUPPORTED_CURRENCIES

\* C23: after any sequence of add, edit-price and duplicate-decision
\* operations every price stored in a subscription row or in a payment row,
\* read back from its text with two decimals, has 0 < amount <= MAX_PRICE and
\* a supported currency
C23_MoneyInvariant ==
    /\ \A s \in subscriptions : StoredInRange(s.price)
    /\ \A p \in payment_history : StoredInRange(p.amount)

-----------------------------------------------------------------------------
(* Lookup and insert as one unit                                           *)

\* C24: under every interleaving of one user's add operations (the steps of
\* the guided flow, quick add, /add) a subscription is never inserted without
\* a duplicate decision while a subscription of that user with the same name
\* exists at the moment of the insert: a step that inserts a row whose name
\* is already stored for its user is the decision CreateNew
C24_LookupAndInsertAreOneUnit ==
    [][\A s \in subscriptions' :
          (s.id = next_sub_id /\ SameName(s.user_id, s.name))
          => reply'.kind = "dup_created"]_vars

-----------------------------------------------------------------------------
(* The guided flow starts from a clean session                             *)

\* the period the name of a run suggests: Month unless the name is that of
\* a known service with another period
PeriodOfName(name) ==
    IF \E k \in DOMAIN KNOWN_SERVICES : KNOWN_SERVICES[k].name = name
    THEN KNOWN_SERVICES[CHOOSE k \in DOMAIN KNOWN_SERVICES :
                            KNOWN_SERVICES[k].name = name].period
    ELSE DEFAULT_PERIOD

\* C26: a guided flow entered through add_flow_start depends only on the
\* name, price and date entered in that run: when the name collides with no
\* stored subscription of the user, the date step that completes the flow
\* inserts exactly one subscription with that name, raises no duplicate
\* decision, and the period is Month unless the name is a known service with
\* another period; also after an earlier run was abandoned without /cancel
C26_FlowStartsClean ==
    [][\A u \in Users, text \in BotTexts :
          (/\ add_flow_date(u, text)
           /\ IsSome(parse_ru_date(py_strip(text)))
           /\ IsSome(user_data[u].add_name)
           /\ IsSome(user_data[u].add_amount)
           /\ IsSome(user_data[u].add_currency)
           /\ ~SameName(u, Get(user_data[u].add_name)))
          => /\ reply' = Reply("added", next_sub_id)
             /\ Cardinality(subscriptions') = Cardinality(subscriptions) + 1
             /\ \E s \in subscriptions' :
                    /\ s.id = next_sub_id
                    /\ s.user_id = u
                    /\ s.name = Get(user_data[u].add_name)
                    /\ s.period = PeriodOfName(s.name)]_vars

-----------------------------------------------------------------------------
(* The limit of subscriptions per user                                     *)

\* C25: after any sequence of add operations (guided flow, quick add in
\* menu_router or add_flow_name, /add, the decision CreateNew) no user has
\* more than MAX_SUBSCRIPTIONS_PER_USER stored subscriptions
C25_PerUserCap ==
    \A u \in Users : count_user_subscriptions(u) <= MAX_SUBSCRIPTIONS_PER_USER

-----------------------------------------------------------------------------
(* Ownership of the operations addressed by an id                          *)

\* callback data made of a word, an id and, for some buttons, a second word
ButtonData(words, id) ==
    WORD[words[1]] \o <<":">> \o int_str(id)
        \o (IF Len(words) = 2 THEN <<":">> \o WORD[words[2]] ELSE <<>>)

\* the id is that of a row of another user
OwnedByOther(u, id) == \E s \in subscriptions : s.id = id /\ s.user_id # u

\* the step is an operation of user u addressed by the id: pause toggle, mark
\* paid, field edit (the button and the text that follows it), period and
\* category change, delete, and the decisions RecordPayment and UpdateExisting
AddressedBy(u, id) ==
    \/ \E w \in {<<"toggle_pause">>, <<"mark_paid">>, <<"edit_field", "price">>} :
           edit_callback(u, ButtonData(w, id), date(2026, 1, 31))
    \/ /\ user_data[u].edit_id = Some(id)
       /\ menu_router(u, <<"0", ".", "0", "0", "4">>)
    \/ period_callback(u, ButtonData(<<"period", "year">>, id))
    \/ category_callback(u, ButtonData(<<"category", "music">>, id))
    \/ delete_callback(u, ButtonData(<<"delete_confirm">>, id))
    \/ \E kind \in {"dup_payment", "dup_update"}, cand \in Candidates :
           duplicate_callback(u, callback_data(kind, id, cand))

\* C27: an operation addressed by a subscription id reads and mutates only
\* rows of the requesting user: when the id belongs to another user, the
\* subscriptions of every other user are unchanged, no payment row referring
\* to that subscription is added, and the reply is none of those that show
\* or confirm a change of the row
C27_OnlyOwnRows ==
    [][\A u \in Users, id \in 1..MaxSubs :
          (OwnedByOther(u, id) /\ AddressedBy(u, id))
          => /\ {s \in subscriptions' : s.user_id # u} = {s \in subscriptions : s.user_id # u}
             /\ \A p \in payment_history' \ payment_history : p.subscription_id # id
             /\ reply'.kind \notin {"shown", "paid", "pause_toggled", "deleted", "delete_ask"}]_vars

\* an operation that looks the row up was addressed to a row of another
\* user and answered that there is no such row
C27_Witness ==
    /\ reply.kind = "not_found"
    /\ \E s \in subscriptions : s.id = reply.id

-----------------------------------------------------------------------------
(* Payments of deleted subscriptions                                       *)

\* the subscription a payment row refers to is stored
RefersToStored(p) == \E s \in subscriptions : s.id = p.subscription_id

\* C28: every payment_history row refers to a subscription that still
\* exists (deleting a subscription removes its payment rows), so the yearly
\* statistics neither count nor total a payment of a deleted subscription
C28_PaymentsOfStoredRows ==
    /\ \A p \in payment_history : RefersToStored(p)
    /\ \A u \in Users :
           /\ \A p \in get_yearly_stats(u, 2026).payments : RefersToStored(p)
           /\ \A p \in get_yearly_stats(u, 2026).monthly : RefersToStored(p)

-----------------------------------------------------------------------------
(* Marking a subscription paid                                             *)

\* C29: marking a subscription paid on day T appends exactly one payment
\* row with the stored price, sets last_charge_date to T, and announces as
\* next charge date (T plus one period) the date that next_cmd and
\* send_reminders compute for the subscription on the same day T, which is
\* next_from_last(T, period, T)
C29_MarkPaidConsistent ==
    [][\A u \in Users, id \in 1..MaxSubs, T \in {date(2026, 1, 31)} :
          (/\ edit_callback(u, ButtonData(<<"mark_paid">>, id), T)
           /\ IsSome(get_subscription_by_id(u, id)))
          => \E s \in subscriptions' :
                 /\ s.id = id
                 /\ s.last_charge_date = isoformat(T)
                 /\ payment_history' \ payment_history =
                        {[id |-> next_pay_id, subscription_id |-> id, user_id |-> u,
                          amount |-> Get(get_subscription_by_id(u, id)).price,
                          paid_at |-> isoformat(T)]}
                 /\ payment_history \subseteq payment_history'
                 /\ reply'.kind = "paid"
                 /\ reply'.next_date = next_charge(s, T)
                 /\ reply'.next_date = next_from_last(T, s.period, T)]_vars

-----------------------------------------------------------------------------
(* The anchor day of a monthly subscription                                *)

\* C30: for a monthly subscription next_from_last(last, month, today)
\* returns a date whose day of the month is min(last.day, number of days of
\* the month of the result): a shorter month on the way does not lower the
\* charge day for good (anchor 31 gives Feb 28/29 and then Mar 31)
C30_AnchorDayKept ==
    (nfl_pc = "done" /\ nfl_period = "month")
    => candidate.day = Min(nfl_last.day, days_in_month(candidate.year, candidate.month))
=============================================================================
